---- MODULE Spec2Model ----
(***************************************************************************)
(* CaptionApp: word-level captions packed into segments and rendered on    *)
(* video frames.                                                           *)
(*                                                                         *)
(* Spec       : caption core.  A transcribed word list is packed by        *)
(*              Segmenter.create_segments and the frames of the video are  *)
(*              captioned by CaptionRenderer (active segment lookup).      *)
(*                                                                         *)
(* Texts are sequences of one-character strings.  Times are integers in    *)
(* milliseconds; timestamps are the "HH:MM:SS,mmm" strings of the program, *)
(* held as <<HH, MM, SS, mmm>>.  Glyph advances are held in half pixels,   *)
(* so that the int() truncation of a measured width is kept.               *)
(***************************************************************************)
EXTENDS Integers, Sequences, FiniteSets, TLC

VARIABLES
    entry,          \* the function that was called to render
    cleanup,        \* processing.cleanup_temp_files
    pc,             \* position of the call
    words,          \* word_timestamps['words'] handed to the Segmenter
    segments,       \* the list create_segments returned
    cap_opened,     \* cap.isOpened()
    frame_count,    \* frames read, captioned and written so far
    current_time,   \* playback time (ms) of the last captioned frame
    active_segment, \* index in segments of the segment found for it, 0 = None
    temp_dir,       \* the temporary working directory: "none", "exists", "removed"
    remux_log,      \* the ffmpeg calls made, [params, result] each
    output,         \* what lies at the output path: "none", "merged", "silent"
    exc,            \* the exception on its way to the caller, "None" if none
    result,         \* how the call ended: "running", then the value returned or "raised"
    fonts,          \* the font files of the machine and the configured fonts.path
    segmenter_font, \* Segmenter.font
    renderer_font,  \* the font CaptionRenderer._load_font returned for the frame
    frames_read,    \* frames cap.read() has handed out so far
    written,        \* the frames given to out.write(), in the order written
    config,         \* the settings of the render: highlighting mode, background, rotation
    caption_box,    \* the caption block to place: frame size, position, block and font size
    placement,      \* where the text and its background rectangle are drawn
    out_opened,     \* out.isOpened(): the frame writer is open
    caller_words,   \* word_timestamps['words'] as the caller finds it afterwards
    video_info,     \* width and height of the source video
    sizes,          \* the sizes worked out for the Segmenter, the writer and the frames
    presets_call,   \* with_presets: its arguments, preset_config, the Config of the instance
    grouper,        \* _group_words_with_punctuation: i, grouped_words, current_group
    packer,         \* the loop of create_segments: k, segments, current_segment, current_width
    composited,     \* the layers alpha-composited onto the frame captioned last, bottom first
    font_log,       \* CaptionRenderer._font_logged and the font messages in the progress log
    caption_processor,  \* a CaptionProcessor: its Config store, the CaptionRenderer it built
    released        \* of "cap" and "out": what release() was called on

callvars == <<entry, cleanup>>
corevars == <<words, segments, frame_count, current_time, active_segment,
              frames_read, written>>
filevars == <<temp_dir, remux_log, output>>
fontvars == <<fonts, segmenter_font, renderer_font>>
layoutvars == <<caption_box, placement>>
fixedvars == <<entry, cleanup, config, video_info, fonts, segmenter_font, renderer_font,
               caption_box, placement>>

vars == <<entry, cleanup, pc, words, segments, cap_opened, frame_count, current_time,
          active_segment, temp_dir, remux_log, output, exc, result,
          fonts, segmenter_font, renderer_font, frames_read, written,
          config, caption_box, placement, out_opened, caller_words, video_info, sizes,
          presets_call, grouper, packer, composited,
          font_log, caption_processor, released>>

----------------------------------------------------------------------------
(* Bounds of the model *)

MaxWords == 3        \* longest word list
MaxFrames == 5       \* frames of the source video
MaxFonts == 2        \* candidates of each step of the font fallback chain
TimeStep == 500      \* grid (ms) of the word times and of the frame period

(* Configuration of the run *)

max_width_pixels == 7
max_duration_ms == 1500

----------------------------------------------------------------------------
(* Characters and texts *)

None == <<>>

RECURSIVE SumSeq(_)
SumSeq(s) == IF s = <<>> THEN 0 ELSE Head(s) + SumSeq(Tail(s))

is_space(c) == c = " "

is_word_char(c) == c \in {"a", "b", "s", "S"}

char_lower(c) == IF c = "S" THEN "s" ELSE c

lower(text) == [i \in 1..Len(text) |-> char_lower(text[i])]

\* not text.strip(): nothing but whitespace
strip_is_empty(text) == \A i \in 1..Len(text) : is_space(text[i])

\* advance of one glyph, in half pixels
advance(c) ==
    CASE c = "." -> 1
      [] c = "," -> 1
      [] c = "'" -> 1
      [] OTHER   -> 3

textlength(text) == SumSeq([i \in 1..Len(text) |-> advance(text[i])])

\* int(draw.textlength(text)): advances are counted in half pixels
_measure_text_width(text) == textlength(text) \div 2

_is_punctuation(text) ==
    /\ Len(text) = 1
    /\ ~is_word_char(text[1])
    /\ ~is_space(text[1])

----------------------------------------------------------------------------
(* Timestamps *)

format_srt_timestamp(ms) ==
    LET seconds == ms \div 1000
    IN  << seconds \div 3600, (seconds % 3600) \div 60, seconds % 60, ms % 1000 >>

parse_time_to_seconds(ts) ==
    (ts[1] * 3600 + ts[2] * 60 + ts[3]) * 1000 + ts[4]

----------------------------------------------------------------------------
(* Transcriber.create_word_timestamps: the word list the Segmenter is given *)

\* word.get('word', '').strip()
RECURSIVE lstrip(_)
lstrip(text) ==
    IF text # <<>> /\ is_space(Head(text)) THEN lstrip(Tail(text)) ELSE text

RECURSIVE rstrip(_)
rstrip(text) ==
    IF text # <<>> /\ is_space(text[Len(text)])
    THEN rstrip(SubSeq(text, 1, Len(text) - 1)) ELSE text

strip(text) == rstrip(lstrip(text))

Max0(x) == IF x < 0 THEN 0 ELSE x

\* raw: Whisper's words, [word, start, end] with times in ms
RECURSIVE create_word_timestamps(_)
create_word_timestamps(raw) ==
    IF raw = <<>> THEN <<>>
    ELSE LET word == Head(raw)
             word_text == strip(word.word)
         IN  IF word_text # <<>>
             THEN << [text  |-> word_text,
                      start |-> format_srt_timestamp(Max0(word.start)),
                      end   |-> format_srt_timestamp(word.end)] >>
                  \o create_word_timestamps(Tail(raw))
             ELSE create_word_timestamps(Tail(raw))

----------------------------------------------------------------------------
(* Segmenter._group_words_with_punctuation *)

contraction_endings ==
    { <<"r", "e">>, <<"l", "l">>, <<"v", "e">>, <<"s">>, <<"t">>, <<"d">>, <<"m">> }

is_apostrophe(text) == text = <<"'">>

\* lines 84-99: the apostrophe of a contraction, with a group to attach it to
is_contraction(wordlist, i, current_group) ==
    /\ is_apostrophe(wordlist[i].text)
    /\ i + 1 <= Len(wordlist)
    /\ lower(wordlist[i + 1].text) \in contraction_endings
    /\ current_group # None

\* current_group is None (<<>>) or <<group>>; i counts from 1
RECURSIVE group_loop(_, _, _, _)
group_loop(wordlist, i, grouped_words, current_group) ==
    IF i > Len(wordlist)
    THEN IF current_group # None THEN grouped_words \o current_group
                                 ELSE grouped_words
    ELSE LET word == wordlist[i]
             word_text == word.text
         IN  IF _is_punctuation(word_text)
             THEN IF is_contraction(wordlist, i, current_group)
                  THEN LET next_word == wordlist[i + 1]
                           g == current_group[1]
                       IN  group_loop(wordlist, i + 2, grouped_words,
                               << [g EXCEPT !.text = g.text \o word_text \o next_word.text,
                                            !.end = next_word.end] >>)
                  ELSE IF current_group # None
                       THEN LET g == current_group[1]
                            IN  group_loop(wordlist, i + 1, grouped_words,
                                    << [g EXCEPT !.text = g.text \o word_text,
                                                 !.end = word.end] >>)
                       ELSE group_loop(wordlist, i + 1,
                                       Append(grouped_words, word), None)
             ELSE group_loop(wordlist, i + 1,
                             IF current_group # None
                             THEN grouped_words \o current_group
                             ELSE grouped_words,
                             << word >>)

_group_words_with_punctuation(wordlist) == group_loop(wordlist, 1, <<>>, None)

----------------------------------------------------------------------------
(* Segmenter.create_segments *)

\* the segment before its first word: start_time is None
empty_segment == [text |-> <<>>, start_time |-> None, end_time |-> None, words |-> <<>>]

\* lines 162-166 and 186-191: a segment holding this one word
start_segment(word) ==
    [text |-> word.text, start_time |-> word.start, end_time |-> word.end,
     words |-> << word >>]

\* mutant: the duration is not looked at
should_start_new_segment_width_only(new_width, duration, word_text) ==
    new_width > max_width_pixels /\ ~_is_punctuation(word_text)

\* mutant: punctuation may open a segment
should_start_new_segment_any_token(new_width, duration, word_text) ==
    new_width > max_width_pixels \/ duration > max_duration_ms

\* mutant: both budgets must be exceeded
should_start_new_segment_both(new_width, duration, word_text) ==
    /\ new_width > max_width_pixels /\ duration > max_duration_ms
    /\ ~_is_punctuation(word_text)

\* lines 178-181
should_start_new_segment(new_width, duration, word_text) ==
    LET width_exceeded == new_width > max_width_pixels
        duration_exceeded == duration > max_duration_ms
    IN  (width_exceeded \/ duration_exceeded) /\ ~_is_punctuation(word_text)

\* mutant: the word is put into the text but not into 'words'
add_to_segment_text_only(current_segment, word) ==
    [current_segment EXCEPT
        !.text = IF _is_punctuation(word.text) THEN @ \o word.text
                                               ELSE @ \o <<" ">> \o word.text,
        !.end_time = word.end]

\* lines 195-203
add_to_segment(current_segment, word) ==
    [current_segment EXCEPT
        !.text = IF _is_punctuation(word.text) THEN @ \o word.text
                                               ELSE @ \o <<" ">> \o word.text,
        !.words = Append(@, word),
        !.end_time = word.end]

\* mutant: the finished segment is put in front
finish_segment_in_front(segs, current_segment) == << current_segment >> \o segs

\* lines 183 and 208
finish_segment(segs, current_segment) == Append(segs, current_segment)

\* the loop of lines 153-204 from the k-th grouped word on, then lines 207-208
RECURSIVE segment_loop(_, _, _, _, _)
segment_loop(grouped_words, k, segs, current_segment, current_width) ==
    IF k > Len(grouped_words)
    THEN IF current_segment.start_time # None
         THEN finish_segment(segs, current_segment)
         ELSE segs
    ELSE LET word == grouped_words[k]
             word_text == word.text
             space_width == _measure_text_width(<<" ">>)
             word_width == _measure_text_width(word_text)
             new_width == current_width + space_width + word_width
         IN  IF strip_is_empty(word_text)
             THEN segment_loop(grouped_words, k + 1, segs, current_segment, current_width)
             ELSE IF current_segment.start_time = None
             THEN segment_loop(grouped_words, k + 1, segs, start_segment(word), word_width)
             ELSE LET start_time_sec == parse_time_to_seconds(current_segment.start_time)
                      end_time_sec == parse_time_to_seconds(word.end)
                      duration == end_time_sec - start_time_sec
                  IN  IF should_start_new_segment(new_width, duration, word_text)
                      THEN segment_loop(grouped_words, k + 1,
                                        finish_segment(segs, current_segment),
                                        start_segment(word), word_width)
                      ELSE segment_loop(grouped_words, k + 1, segs,
                                        add_to_segment(current_segment, word), new_width)

\* lines 210-219
format_segments(segs) ==
    [i \in 1..Len(segs) |->
        [index |-> i, start_time |-> segs[i].start_time, end_time |-> segs[i].end_time,
         text |-> segs[i].text, words |-> segs[i].words]]

create_segments(wordlist) ==
    IF wordlist = <<>> THEN <<>>
    ELSE format_segments(
             segment_loop(_group_words_with_punctuation(wordlist), 1, <<>>,
                          empty_segment, 0))

----------------------------------------------------------------------------
(* Segmenter: the word dicts in memory *)

\* The dicts of a call are the cells of a sequence, a dict is named by its
\* index. The caller's list holds the dicts 1..Len(wordlist).

\* mutant: the word itself is taken, not a copy of it
copy_is_alias(heap, ref) == [heap |-> heap, ref |-> ref]

\* segmenter.py lines 107, 115: word.copy() makes a new dict
dict_copy(heap, ref) == [heap |-> Append(heap, heap[ref]), ref |-> Len(heap) + 1]

\* segmenter.py lines 78-120 on the dicts: words[i] is the dict i of the
\* n_words the caller's list holds, current_group is 0 (None) or the dict in
\* progress; the result is the memory and grouped_words at the end
RECURSIVE group_loop_in_memory(_, _, _, _, _)
group_loop_in_memory(heap, n_words, i, grouped_words, current_group) ==
    IF i > n_words
    THEN [heap |-> heap,
          grouped_words |-> IF current_group # 0
                            THEN Append(grouped_words, current_group)
                            ELSE grouped_words]
    ELSE LET word == heap[i]
         IN  IF _is_punctuation(word.text)
             THEN IF /\ is_apostrophe(word.text)
                     /\ i + 1 <= n_words
                     /\ lower(heap[i + 1].text) \in contraction_endings
                     /\ current_group # 0
                  THEN LET next_word == heap[i + 1]
                       IN  group_loop_in_memory(
                               [heap EXCEPT
                                  ![current_group].text = @ \o word.text \o next_word.text,
                                  ![current_group].end = next_word.end],
                               n_words, i + 2, grouped_words, current_group)
                  ELSE IF current_group # 0
                       THEN group_loop_in_memory(
                                [heap EXCEPT ![current_group].text = @ \o word.text,
                                             ![current_group].end = word.end],
                                n_words, i + 1, grouped_words, current_group)
                       ELSE LET c == dict_copy(heap, i)
                            IN  group_loop_in_memory(c.heap, n_words, i + 1,
                                    Append(grouped_words, c.ref), 0)
             ELSE LET c == dict_copy(heap, i)
                  IN  group_loop_in_memory(c.heap, n_words, i + 1,
                          IF current_group # 0
                          THEN Append(grouped_words, current_group)
                          ELSE grouped_words,
                          c.ref)

\* segmenter.py lines 72-122 on the dicts of the caller's list
group_in_memory(wordlist) == group_loop_in_memory(wordlist, Len(wordlist), 1, <<>>, 0)

\* segmenter.py lines 133-219: the caller's list after the call; the packer
\* reads the grouped dicts and writes to the segment dicts it makes
words_after_create_segments(wordlist) ==
    IF wordlist = <<>> THEN wordlist
    ELSE [i \in 1..Len(wordlist) |-> group_in_memory(wordlist).heap[i]]

\* the tokens the dicts of grouped_words hold at the end
tokens_in_memory(wordlist) ==
    LET g == group_in_memory(wordlist)
    IN  [k \in 1..Len(g.grouped_words) |-> g.heap[g.grouped_words[k]]]

----------------------------------------------------------------------------
(* CaptionRenderer: the active segment of a frame *)

\* mutant: the end of the span is included
is_active_closed(start_time, end_time, t) == start_time <= t /\ t <= end_time

\* renderer.py line 252, media_processer.py line 940
is_active(start_time, end_time, t) == start_time <= t /\ t < end_time

\* lines 247-254: the first segment from index i on that is active at t, 0 = None
RECURSIVE find_active_segment(_, _, _)
find_active_segment(segs, i, t) ==
    IF i > Len(segs) THEN 0
    ELSE IF is_active(parse_time_to_seconds(segs[i].start_time),
                      parse_time_to_seconds(segs[i].end_time), t)
         THEN i
         ELSE find_active_segment(segs, i + 1, t)

----------------------------------------------------------------------------
(* CaptionRenderer: what is drawn on a frame *)

\* config.py line 95
highlighting_modes == { "text", "background", "both", "current_word_only" }

\* renderer.py lines 61-63
\* mutants: the mode both is forgotten
highlight_text_mode_only(cfg) == cfg.highlighting_mode = "text"
highlight_background_mode_only(cfg) == cfg.highlighting_mode = "background"

highlight_text(cfg) == cfg.highlighting_mode \in {"text", "both"}
highlight_background(cfg) == cfg.highlighting_mode \in {"background", "both"}
show_current_word_only(cfg) == cfg.highlighting_mode = "current_word_only"

\* renderer.py lines 277-282, media_processer.py lines 962-966: the first word
\* of the segment from index i on that is spoken at t, 0 = None
RECURSIVE find_active_word(_, _, _)
find_active_word(segment_words, i, t) ==
    IF i > Len(segment_words) THEN 0
    ELSE IF is_active(parse_time_to_seconds(segment_words[i].start),
                      parse_time_to_seconds(segment_words[i].end), t)
         THEN i
         ELSE find_active_word(segment_words, i + 1, t)

\* the four layers put on a frame: the words (by their index in the segment)
\* drawn on the text layer and on the shadow layer, those drawn in the
\* highlight colour, those with a highlight rectangle behind them, and whether
\* the background rectangle is drawn
layers(text, shadow, highlighted_text, highlighted_background, background) ==
    [text |-> text, shadow |-> shadow, highlighted_text |-> highlighted_text,
     highlighted_background |-> highlighted_background, background |-> background]

\* renderer.py lines 256-268, 292-309: empty layers are composited
nothing_drawn == layers(<<>>, <<>>, <<>>, <<>>, FALSE)

\* mutant: the segment's first word is drawn when no word is spoken
active_word_or_first(segment_words, t) ==
    IF find_active_word(segment_words, 1, t) # 0
    THEN find_active_word(segment_words, 1, t)
    ELSE IF segment_words # <<>> THEN 1 ELSE 0

\* renderer.py lines 276-282
active_word(segment_words, t) == find_active_word(segment_words, 1, t)

\* renderer.py lines 311-357
_render_single_word(w, cfg, is_highlighted) ==
    layers(<< w >>, << w >>,
           IF highlight_text(cfg) /\ is_highlighted THEN << w >> ELSE <<>>,
           IF highlight_background(cfg) /\ is_highlighted THEN << w >> ELSE <<>>,
           cfg.background_color # "None")

\* renderer.py lines 359-424
_render_full_segment(segment, t, cfg) ==
    IF segment.words = <<>> THEN nothing_drawn
    ELSE LET all == [i \in 1..Len(segment.words) |-> i]
             is_highlighted(i) ==
                 is_active(parse_time_to_seconds(segment.words[i].start),
                           parse_time_to_seconds(segment.words[i].end), t)
         IN  layers(all, all,
                    IF highlight_text(cfg) THEN SelectSeq(all, is_highlighted) ELSE <<>>,
                    IF highlight_background(cfg) THEN SelectSeq(all, is_highlighted)
                                                 ELSE <<>>,
                    cfg.background_color # "None")

\* renderer.py lines 246-290: the layers of the frame at time t
_render_caption_on_frame(segs, t, cfg) ==
    IF find_active_segment(segs, 1, t) = 0 THEN nothing_drawn
    ELSE LET segment == segs[find_active_segment(segs, 1, t)]
         IN  IF show_current_word_only(cfg)
             THEN IF active_word(segment.words, t) # 0
                  THEN _render_single_word(active_word(segment.words, t), cfg, TRUE)
                  ELSE nothing_drawn
             ELSE _render_full_segment(segment, t, cfg)

\* mutant: the text is laid under the shadow
composite_layers_text_first(segs, t, cfg) ==
    IF find_active_segment(segs, 1, t) = 0 THEN <<>>
    ELSE (IF cfg.background_color # "None" THEN << "background" >> ELSE <<>>)
         \o << "highlight_background", "text", "shadow" >>

\* renderer.py lines 256-258, 297-306; media_processer.py lines 948-951,
\* 1177-1189: the layers put onto the frame, in the order of the calls of
\* Image.alpha_composite
composite_layers(segs, t, cfg) ==
    IF find_active_segment(segs, 1, t) = 0 THEN <<>>
    ELSE (IF cfg.background_color # "None" THEN << "background" >> ELSE <<>>)
         \o << "highlight_background", "shadow", "text" >>

----------------------------------------------------------------------------
(* CaptionRenderer: where the caption is drawn *)

\* a caption block to place on a frame of width x height pixels: the position
\* ratios in percent, the width and height of the text, font.size
box(width, height, position_x, position_y, block_width, text_height, font_size) ==
    [width |-> width, height |-> height, position_x |-> position_x,
     position_y |-> position_y, block_width |-> block_width,
     text_height |-> text_height, font_size |-> font_size]

\* the text origin and the corners of the background rectangle
placed(x, y, bg_left, bg_top, bg_right, bg_bottom) ==
    [x |-> x, y |-> y, bg_left |-> bg_left, bg_top |-> bg_top,
     bg_right |-> bg_right, bg_bottom |-> bg_bottom]

no_box == box(0, 0, 0, 0, 0, 0, 0)
no_placement == placed(0, 0, 0, 0, 0, 0)

\* renderer.py lines 325, 379; media_processer.py lines 1073, 1074
h_padding(font_size) == (font_size * 5) \div 10
v_padding(font_size) == (font_size * 3) \div 10

\* renderer.py lines 372-393
_render_full_segment_placement(b) ==
    LET start_x == (b.width * b.position_x) \div 100 - (b.block_width \div 2)
        y_position == (b.height * b.position_y) \div 100 - (b.text_height \div 2)
    IN  placed(start_x, y_position,
               start_x - h_padding(b.font_size), y_position - v_padding(b.font_size),
               start_x + b.block_width + h_padding(b.font_size),
               y_position + b.text_height + v_padding(b.font_size))

\* renderer.py lines 319-339
_render_single_word_placement(b) ==
    LET x_position == (b.width * b.position_x) \div 100 - (b.block_width \div 2)
        y_position == (b.height * b.position_y) \div 100 - (b.text_height \div 2)
    IN  placed(x_position, y_position,
               x_position - h_padding(b.font_size), y_position - v_padding(b.font_size),
               x_position + b.block_width + h_padding(b.font_size),
               y_position + b.text_height + v_padding(b.font_size))

\* media_processer.py lines 1081, 1088: the margin, the shift to the right
\* that brings the left edge to it, then the shift to the left that brings
\* the right edge to it
min_margin(width) == (width * 1) \div 100
shift_right(p, width) ==
    IF p.bg_left < min_margin(width)
    THEN LET offset == min_margin(width) - p.bg_left
         IN  [p EXCEPT !.bg_left = @ + offset, !.bg_right = @ + offset, !.x = @ + offset]
    ELSE p
shift_left(p, width) ==
    IF p.bg_right > width - min_margin(width)
    THEN LET offset == p.bg_right - (width - min_margin(width))
         IN  [p EXCEPT !.bg_left = @ - offset, !.bg_right = @ - offset, !.x = @ - offset]
    ELSE p

\* media_processer.py lines 913, 1066-1094: add_text_with_segments_and_color_highlights
add_text_placement(b) ==
    LET start_x == (b.width * b.position_x) \div 100 - (b.block_width \div 2)
        base_y_position == (b.height * b.position_y) \div 100
        unshifted == placed(start_x, base_y_position,
                            start_x - h_padding(b.font_size),
                            base_y_position - v_padding(b.font_size),
                            start_x + b.block_width + h_padding(b.font_size),
                            base_y_position + b.text_height + v_padding(b.font_size))
    IN  shift_left(shift_right(unshifted, b.width), b.width)

----------------------------------------------------------------------------
(* Inputs: what Whisper can hand to Transcriber.create_word_timestamps *)

RawTexts ==
    { <<" ", "a", "b">>, <<" ", "S">>, <<".">>, <<"'">>,
      <<" ", "a", "b", "a", "b", "a", "b">> }

\* where a word lies after the one before it, in steps of TimeStep:
\* <<gap, length>>; "overlap" starts with the word before it and lasts one step
Timings == { "next", "pause", "long", "overlap" }

gap_of(timing) == IF timing \in {"pause", "gap"} THEN 1 ELSE 0

length_of(timing) ==
    CASE timing = "pause" -> 2
      [] timing = "long"  -> 4
      [] OTHER            -> 1

RECURSIVE raw_words(_, _, _)
raw_words(choices, prev_start, prev_end) ==
    IF choices = <<>> THEN <<>>
    ELSE LET c == Head(choices)
             start == IF c[2] = "overlap" THEN prev_start
                      ELSE prev_end + gap_of(c[2]) * TimeStep
             end == start + length_of(c[2]) * TimeStep
         IN  << [word |-> c[1], start |-> start, end |-> end] >>
             \o raw_words(Tail(choices), start, end)

WordLists ==
    { create_word_timestamps(raw_words(ch, 0, 0)) :
        ch \in UNION { [1..n -> RawTexts \X Timings] : n \in 0..MaxWords } }

fps == 2

\* the settings of a render; the defaults of config.py lines 175, 187 and
\* caption_processor.py line 93
default_config ==
    [highlighting_mode |-> "text", background_color |-> "None", rotation_degrees |-> 0]

Configs ==
    [highlighting_mode : highlighting_modes, background_color : {"None", "colour"},
     rotation_degrees : {0, 90, 180, 270}]

----------------------------------------------------------------------------
(* Sizes: the source, the rotation, the font *)

size(width, height) == [width |-> width, height |-> height]

\* landscape, portrait and a landscape video wide enough for the width cap
VideoSizes == { size(640, 360), size(360, 640), size(1280, 720) }

default_video == size(640, 360)

\* fonts.size_scale, in thousandths; video.max_width_pixels
font_size_scale == 45
config_max_width_pixels == 800

\* caption_processor.py lines 95-103
effective_size(info, rotation_degrees) ==
    IF rotation_degrees \in {90, 270} THEN size(info.height, info.width)
                                      ELSE size(info.width, info.height)

\* caption_processor.py line 106, renderer.py line 243: int(height * font_size_scale)
font_size_for(height) == (height * font_size_scale) \div 1000

\* caption_processor.py line 112
max_width_for(width) ==
    IF config_max_width_pixels <= (width * 8) \div 10 THEN config_max_width_pixels
                                                      ELSE (width * 8) \div 10

\* mutant: only a quarter turn to the right swaps the sides
output_size_90_only(width, height, rotation_degrees) ==
    IF rotation_degrees = 90 THEN size(height, width) ELSE size(width, height)

\* renderer.py lines 462-467; media_processer.py lines 648, 1241 (always turned)
output_size(width, height, rotation_degrees) ==
    IF rotation_degrees \in {90, 270} THEN size(height, width) ELSE size(width, height)

\* renderer.py lines 493-498, media_processer.py line 673: cv2.rotate
rotate(frame, rotation_degrees) ==
    CASE rotation_degrees = 90  -> size(frame.height, frame.width)
      [] rotation_degrees = 180 -> size(frame.width, frame.height)
      [] rotation_degrees = 270 -> size(frame.height, frame.width)
      [] OTHER                  -> frame

\* what the call has worked out so far: the effective size, the font size and
\* the width budget of the Segmenter; the size the writer was opened with;
\* the size of the frame being captioned and the font size taken for it
no_sizes ==
    [effective |-> size(0, 0), font_size |-> 0, max_width_pixels |-> 0,
     output |-> size(0, 0), frame |-> size(0, 0), frame_font_size |-> 0]

----------------------------------------------------------------------------
(* CaptionProcessor.with_presets: presets, overrides, Config *)

\* a dict of settings under their dotted keys: a function on the keys it has
empty_dict == [k \in {} |-> <<>>]

\* dict.update; Config._apply_overrides for keys of two parts
dict_update(d, other) ==
    [k \in DOMAIN d \cup DOMAIN other |-> IF k \in DOMAIN other THEN other[k] ELSE d[k]]

\* caption_processor.py lines 186-207; scales in thousandths, seconds in ms
presets ==
    [ default |-> empty_dict,
      large_text |->
          [k \in {"fonts.size_scale", "segments.max_duration_seconds"} |->
             IF k = "fonts.size_scale" THEN 60 ELSE 2000],
      minimal |->
          [k \in {"highlighting.mode", "colors.background", "segments.blur_radius"} |->
             CASE k = "highlighting.mode" -> "text"
               [] k = "colors.background" -> None
               [] OTHER                   -> 2],
      current_word |->
          [k \in {"highlighting.mode", "colors.highlight", "fonts.size_scale"} |->
             CASE k = "highlighting.mode" -> "current_word_only"
               [] k = "colors.highlight"  -> <<255, 255, 0>>
               [] OTHER                   -> 55],
      background_highlight |->
          [k \in {"highlighting.mode", "colors.highlight_background",
                  "segments.blur_radius"} |->
             CASE k = "highlighting.mode"           -> "background"
               [] k = "colors.highlight_background" -> <<0, 0, 255>>
               [] OTHER                             -> 3] ]

\* presets.get(preset, {})
presets_get(preset) ==
    IF preset \in DOMAIN presets THEN presets[preset] ELSE empty_dict

\* the settings the presets touch, with the values Config hands out for them
\* when nothing overrides them (config.py lines 163-187, caption_processor.py
\* lines 113, 128)
default_settings ==
    [k \in {"fonts.size_scale", "segments.max_duration_seconds", "highlighting.mode",
            "colors.background", "segments.blur_radius", "colors.highlight",
            "colors.highlight_background"} |->
       CASE k = "fonts.size_scale"              -> font_size_scale
         [] k = "segments.max_duration_seconds" -> max_duration_ms
         [] k = "highlighting.mode"             -> "text"
         [] k = "colors.background"             -> None
         [] k = "segments.blur_radius"          -> 5
         [] k = "colors.highlight"              -> <<255, 255, 0>>
         [] k = "colors.highlight_background"   -> <<0, 255, 0>>]

\* config.py lines 104-110
_is_valid_color(color) ==
    /\ Len(color) \in {3, 4}
    /\ \A c \in 1..Len(color) : color[c] \in 0..255

\* config.py lines 81-97, for the settings above
settings_valid(settings) ==
    /\ _is_valid_color(settings["colors.highlight"])
    /\ _is_valid_color(settings["colors.highlight_background"])
    /\ settings["highlighting.mode"] \in highlighting_modes

\* the preset names of the table and one that is not in it
PresetNames ==
    {"default", "large_text", "minimal", "current_word", "background_highlight", "cinema"}

\* keyword overrides: none, one setting, a setting the preset also has, one
\* that validation rejects
Overrides ==
    { empty_dict,
      [k \in {"fonts.size_scale"} |-> 70],
      [k \in {"highlighting.mode"} |-> "both"],
      [k \in {"highlighting.mode"} |-> "karaoke"],
      [k \in {"segments.blur_radius", "colors.highlight"} |->
         IF k = "segments.blur_radius" THEN 9 ELSE <<0, 255, 0>>],
      [k \in {"colors.highlight_background"} |-> <<0, 0, 300>>] }

no_call ==
    [preset |-> "default", overrides |-> empty_dict, preset_config |-> empty_dict,
     instance |-> empty_dict]

----------------------------------------------------------------------------
(* Config behind a CaptionProcessor: construction, set, update_config *)

MaxCalls == 3   \* most calls of Config.set and update_config on one processor

\* the mode and the position ratios (in hundredths) Config hands out when
\* nothing overrides them (config.py lines 183, 187)
config_defaults ==
    [k \in {"highlighting.mode", "positioning.horizontal", "positioning.vertical"} |->
       CASE k = "highlighting.mode"      -> "text"
         [] k = "positioning.horizontal" -> 50
         [] OTHER                        -> 80]

\* config.py lines 88-98: positioning and highlighting mode
_validate_config(c) ==
    /\ \A pos_key \in {"positioning.horizontal", "positioning.vertical"} :
          0 <= c[pos_key] /\ c[pos_key] <= 100
    /\ c["highlighting.mode"] \in highlighting_modes

\* keyword arguments of CaptionProcessor(...) and of update_config(...): none,
\* valid settings, a mode outside the closed set, a ratio outside [0, 1]
ConfigUpdates ==
    { empty_dict,
      [k \in {"highlighting.mode"} |-> "both"],
      [k \in {"highlighting.mode"} |-> "karaoke"],
      [k \in {"positioning.vertical"} |-> 150],
      [k \in {"positioning.horizontal"} |-> -10],
      [k \in {"highlighting.mode", "positioning.vertical"} |->
         IF k = "highlighting.mode" THEN "current_word_only" ELSE 20] }

\* the (key_path, value) arguments of Config.set
ConfigSetArguments ==
    { << "highlighting.mode", "background" >>, << "highlighting.mode", "glow" >>,
      << "positioning.horizontal", 100 >>, << "positioning.vertical", 120 >> }

\* config.py lines 134-142, 66-77: the value is stored under the key
Config_set(c, key_path, value) == [c EXCEPT ![key_path] = value]

\* before CaptionProcessor(...): no Config, no renderer, no call yet
no_processor == [_config |-> empty_dict, renderer |-> empty_dict, calls |-> 0]

----------------------------------------------------------------------------
(* Segmenter._group_words_with_punctuation, step by step *)

MaxGroupWords == 4   \* longest word list handed to the grouper alone

\* before the call; i counts from 1
no_grouper == [i |-> 1, grouped_words |-> <<>>, current_group |-> None]

\* mutant: the token keeps the end of the stem
merge_keeps_end(current_group, word_text, next_word) ==
    << [current_group[1] EXCEPT !.text = @ \o word_text \o next_word.text] >>

\* segmenter.py lines 95-97
merge_contraction(current_group, word_text, next_word) ==
    << [current_group[1] EXCEPT !.text = @ \o word_text \o next_word.text,
                                !.end = next_word.end] >>

\* the packer before its first token; k counts the grouped words from 1
no_packer ==
    [k |-> 1, segments |-> <<>>, current_segment |-> empty_segment, current_width |-> 0]

\* mutant: the punctuation is set off by a space
attach_with_space(current_group, word) ==
    << [current_group[1] EXCEPT !.text = @ \o <<" ">> \o word.text, !.end = word.end] >>

\* segmenter.py lines 102-104
attach_punctuation(current_group, word) ==
    << [current_group[1] EXCEPT !.text = @ \o word.text, !.end = word.end] >>

\* the words of a list handed to create_segments, one after the other on the
\* time grid: a word, the suffix s in both cases, an apostrophe, a full stop,
\* and a word that is nothing but a blank
GrouperTexts == { <<"a", "b">>, <<"s">>, <<"S">>, <<"'">>, <<".">>, <<" ">> }

GrouperWords ==
    { [k \in DOMAIN texts |-> [text  |-> texts[k],
                                  start |-> format_srt_timestamp((k - 1) * TimeStep),
                                  end   |-> format_srt_timestamp(k * TimeStep)]] :
        texts \in UNION { [1..n -> GrouperTexts] : n \in 0..MaxGroupWords } }

----------------------------------------------------------------------------
(* Fonts *)

\* a loaded font, or the exception raised instead (kind "FontError")
font(kind, index) == [kind |-> kind, index |-> index]

\* a candidate file of the chain: not there, there but not loadable, loadable
FontFiles == { "missing", "corrupt", "ok" }

\* the machine: fonts.path of the configuration ("None", "absolute",
\* "relative"), whether that path exists as given (Config, Segmenter) and
\* under the project root (CaptionRenderer), whether ImageFont.truetype loads
\* it; the fonts/ directory; the candidates of the project, system and
\* by-name steps
FontEnvs ==
    { e \in [ font_path : {"None", "absolute", "relative"},
              exists_as_given : BOOLEAN, exists_at_root : BOOLEAN,
              loadable : BOOLEAN, fonts_dir : BOOLEAN,
              project_fonts : [1..MaxFonts -> FontFiles],
              system_fonts : [1..MaxFonts -> FontFiles],
              font_names : [1..MaxFonts -> {"corrupt", "ok"}] ] :
        /\ e.font_path = "None" => ~e.exists_as_given /\ ~e.exists_at_root
        /\ e.font_path = "absolute" => e.exists_at_root = e.exists_as_given
        /\ e.loadable => e.exists_as_given \/ e.exists_at_root
        /\ ~e.fonts_dir => \A i \in 1..MaxFonts : e.project_fonts[i] = "missing" }

no_fonts ==
    [ font_path |-> "None", exists_as_given |-> FALSE, exists_at_root |-> FALSE,
      loadable |-> FALSE, fonts_dir |-> FALSE,
      project_fonts |-> [i \in 1..MaxFonts |-> "missing"],
      system_fonts |-> [i \in 1..MaxFonts |-> "missing"],
      font_names |-> [i \in 1..MaxFonts |-> "corrupt"] ]

\* the loops of renderer.py lines 114-123, 128-135, 145-151: the first
\* candidate from i on that exists and loads, 0 if there is none
RECURSIVE first_loadable(_, _)
first_loadable(candidates, i) ==
    IF i > Len(candidates) THEN 0
    ELSE IF candidates[i] = "ok" THEN i
    ELSE first_loadable(candidates, i + 1)

\* config.py lines 100-103
font_path_valid(e) == ~(e.font_path # "None" /\ ~e.exists_as_given)

\* segmenter.py lines 41-49
Segmenter_load_font(e) ==
    IF e.font_path # "None" /\ e.exists_as_given
    THEN IF e.loadable THEN font("specified", 0) ELSE font("FontError", 0)
    ELSE font("default", 0)

\* renderer.py lines 65-161
CaptionRenderer_load_font(e) ==
    IF e.font_path # "None" /\ e.exists_at_root
    THEN IF e.loadable THEN font("specified", 0) ELSE font("FontError", 0)
    ELSE IF e.fonts_dir /\ first_loadable(e.project_fonts, 1) # 0
    THEN font("project", first_loadable(e.project_fonts, 1))
    ELSE IF first_loadable(e.system_fonts, 1) # 0
    THEN font("system", first_loadable(e.system_fonts, 1))
    ELSE IF first_loadable(e.font_names, 1) # 0
    THEN font("name", first_loadable(e.font_names, 1))
    ELSE font("default", 0)

\* the calls of _log_font_use made by the loop over the project fonts from
\* candidate i on (renderer.py lines 114-123)
RECURSIVE project_font_messages(_, _)
project_font_messages(candidates, i) ==
    IF i > Len(candidates) THEN <<>>
    ELSE IF candidates[i] = "ok" THEN << "Using project font" >>
    ELSE IF candidates[i] = "corrupt"
         THEN << "Failed to load" >> \o project_font_messages(candidates, i + 1)
    ELSE project_font_messages(candidates, i + 1)

\* the calls of _log_font_use made by one call of _load_font, in their order
\* (renderer.py lines 94, 119, 122, 133, 149, 154-156)
font_messages(e) ==
    IF e.font_path # "None" /\ e.exists_at_root
    THEN IF e.loadable THEN << "Using specified font" >> ELSE <<>>
    ELSE (IF e.fonts_dir THEN project_font_messages(e.project_fonts, 1) ELSE <<>>)
         \o (IF e.fonts_dir /\ first_loadable(e.project_fonts, 1) # 0 THEN <<>>
             ELSE IF first_loadable(e.system_fonts, 1) # 0 THEN << "Using system font" >>
             ELSE IF first_loadable(e.font_names, 1) # 0
                  THEN << "Using system font by name" >>
             ELSE << "WARNING: Using PIL default font", "Consider downloading fonts",
                     "Recommended: Download Roboto" >>)

\* a new CaptionRenderer: no attribute _font_logged yet, nothing in the log
no_font_log == [_font_logged |-> FALSE, messages |-> <<>>]

\* mutant: every message is written
_log_font_use_every_time(log, message) ==
    [log EXCEPT !.messages = Append(@, message), !._font_logged = TRUE]

\* renderer.py lines 198-207, with the progress tracker CaptionProcessor hands over
_log_font_use(log, message) ==
    IF ~log._font_logged
    THEN [log EXCEPT !.messages = Append(@, message), !._font_logged = TRUE]
    ELSE log

\* the calls of one _load_font, one after the other
RECURSIVE log_font_messages(_, _)
log_font_messages(log, messages) ==
    IF messages = <<>> THEN log
    ELSE log_font_messages(_log_font_use(log, Head(messages)), Tail(messages))

----------------------------------------------------------------------------
(* The render calls *)

processor == "CaptionProcessor.process_video"
rotated == "process_complete_video_with_audio_rotated"
extended == "process_complete_video_with_audio_rotated_extended"

Entries == { processor, rotated, extended }

\* how one run of ffmpeg can end: exit code 0, another exit code,
\* subprocess.TimeoutExpired, FileNotFoundError (no ffmpeg)
FfmpegResults == { "ok", "nonzero", "timeout", "not_found" }

\* the word lists of the render specification
SampleChoices ==
    { <<>>,
      << <<<<" ", "a", "b">>, "next">>, <<<<".">>, "next">>, <<<<" ", "S">>, "pause">> >>,
      << <<<<" ", "a", "b">>, "next">>, <<<<" ", "S">>, "gap">> >> }

SampleWords == { create_word_timestamps(raw_words(ch, 0, 0)) : ch \in SampleChoices }

\* mutant: the directory is kept when the body raised
TempFileManager_exit_on_success(cleanup_flag, dir, exc_val) ==
    IF cleanup_flag /\ dir # "none" /\ exc_val = "None" THEN "removed" ELSE dir

\* utils.py lines 165-171: TempFileManager.__exit__
TempFileManager_exit(cleanup_flag, dir, exc_val) ==
    IF cleanup_flag /\ dir # "none" THEN "removed" ELSE dir

\* media_processer.py lines 741-745, 752-756: shutil.rmtree(temp_dir)
rmtree(dir) == IF dir # "none" THEN "removed" ELSE dir

\* the exception the body of the call ends with
raise(e) == /\ exc' = e
            /\ pc' = "exit"

----------------------------------------------------------------------------
(* Actions *)

\* caption_processor.py lines 82-131: validation, video info, Segmenter and
\* CaptionRenderer are made; any of it may raise before the directory exists
Prepare ==
    /\ pc = "prepare"
    /\ \E ok \in BOOLEAN :
          IF ok THEN /\ pc' = "enter"
                     /\ sizes' =
                          LET effective == effective_size(video_info, config.rotation_degrees)
                          IN  [sizes EXCEPT
                                 !.effective = effective,
                                 !.font_size = font_size_for(effective.height),
                                 !.max_width_pixels = max_width_for(effective.width)]
                     /\ UNCHANGED <<exc, result>>
                ELSE /\ pc' = "finished"
                     /\ exc' = "CaptionToolError"
                     /\ result' = "raised"
                     /\ UNCHANGED sizes
    /\ UNCHANGED <<released, caption_processor, font_log, composited, packer, grouper,
                   presets_call, caller_words, out_opened, fixedvars, corevars, filevars,
                   cap_opened>>

\* utils.py lines 160-163 (TempFileManager.__enter__);
\* media_processer.py lines 634 and 1226 (tempfile.mkdtemp)
EnterTempDir ==
    /\ pc = "enter"
    /\ temp_dir' = "exists"
    /\ pc' = IF entry = processor THEN "transcribe" ELSE "open"
    /\ UNCHANGED <<released, caption_processor, font_log, composited, packer, grouper,
                   presets_call, sizes, caller_words, out_opened, fixedvars, corevars,
                   remux_log, output, cap_opened, exc, result>>

\* caption_processor.py lines 218-224: process_media raises or returns the words
Transcribe ==
    /\ pc = "transcribe"
    /\ \/ /\ raise("TranscriptionError")
          /\ UNCHANGED <<words, caller_words>>
       \/ \E w \in SampleWords :
             /\ words' = w
             /\ caller_words' = w
             /\ pc' = "transcribed"
             /\ UNCHANGED exc
    /\ UNCHANGED <<released, caption_processor, font_log, composited, packer, grouper,
                   presets_call, sizes, video_info, out_opened, layoutvars, config,
                   fontvars, callvars, segments, frame_count, current_time, active_segment,
                   frames_read, written, filevars, cap_opened, result>>

\* mutant: an empty word list is an error
CheckWords_raises ==
    /\ pc = "transcribed"
    /\ IF words = <<>> THEN raise("TranscriptionError")
                       ELSE /\ pc' = "segment"
                            /\ UNCHANGED exc
    /\ UNCHANGED <<released, caption_processor, font_log, composited, packer, grouper,
                   presets_call, sizes, caller_words, out_opened, fixedvars, corevars,
                   filevars, cap_opened, result>>

\* caption_processor.py lines 226-229; main.py lines 201-203: nothing to caption
CheckWords ==
    /\ pc = "transcribed"
    /\ IF words = <<>> THEN /\ result' = "False"
                            /\ pc' = "exit"
                       ELSE /\ pc' = "segment"
                            /\ UNCHANGED result
    /\ UNCHANGED <<released, caption_processor, font_log, composited, packer, grouper,
                   presets_call, sizes, caller_words, out_opened, fixedvars, corevars,
                   filevars, cap_opened, exc>>

\* caption_processor.py lines 231-245: segmentation, or nothing to caption
Segment ==
    /\ pc = "segment"
    /\ segments' = create_segments(words)
    /\ caller_words' = words_after_create_segments(words)
    /\ IF create_segments(words) = <<>> THEN /\ result' = "False"
                                             /\ pc' = "exit"
                                        ELSE /\ pc' = "open"
                                             /\ UNCHANGED result
    /\ UNCHANGED <<released, caption_processor, font_log, composited, packer, grouper,
                   presets_call, sizes, video_info, out_opened, layoutvars, config,
                   fontvars, callvars, words, frame_count, current_time, active_segment,
                   frames_read, written, filevars, cap_opened, exc>>

\* caption_processor.py lines 234, 265-269: create_segments raises
SegmentFails ==
    /\ pc = "segment"
    /\ raise("Exception")
    /\ UNCHANGED <<released, caption_processor, font_log, composited, packer, grouper,
                   presets_call, sizes, caller_words, out_opened, fixedvars, corevars,
                   filevars, cap_opened, result>>

\* renderer.py lines 447-475; media_processer.py lines 640-662, 1232-1254
\* (which call cap.release() when the writer does not open)
OpenVideo ==
    /\ pc = "open"
    /\ \E cap_ok \in BOOLEAN, writer_ok \in BOOLEAN :
          /\ cap_opened' = cap_ok
          /\ out_opened' = IF entry = processor THEN cap_ok /\ writer_ok ELSE writer_ok
          /\ sizes' = IF entry = processor /\ ~cap_ok THEN sizes
                       ELSE [sizes EXCEPT !.output =
                                output_size(video_info.width, video_info.height,
                                            config.rotation_degrees)]
          /\ IF entry = processor
             THEN IF cap_ok /\ writer_ok
                  THEN /\ pc' = "render"
                       /\ UNCHANGED <<exc, result, temp_dir>>
                  ELSE /\ raise("RenderingError")
                       /\ UNCHANGED <<result, temp_dir>>
             ELSE IF writer_ok
                  THEN /\ pc' = "render"
                       /\ UNCHANGED <<exc, result, temp_dir>>
                  ELSE /\ temp_dir' = rmtree(temp_dir)
                       /\ result' = "None"
                       /\ pc' = "finished"
                       /\ UNCHANGED exc
          /\ released' = IF entry # processor /\ ~writer_ok THEN {"cap"} ELSE released
    /\ UNCHANGED <<caption_processor, font_log, composited, packer, grouper, presets_call,
                   video_info, caller_words, layoutvars, config, fontvars, callvars,
                   corevars, remux_log, output>>

\* a frame as out.write() gets it: the source frame it was made from, the
\* playback time and the segment it was captioned with
written_frame(source_frame, time, segment, overlay) ==
    [frame |-> source_frame, time |-> time, active |-> segment, overlay |-> overlay]

\* mutant: the frame counter is stepped before the time is taken
RenderFrame_counts_first ==
    /\ pc = "render"
    /\ cap_opened
    /\ frame_count < MaxFrames
    /\ frames_read' = frames_read + 1
    /\ current_time' = ((frame_count + 1) * 1000) \div fps
    /\ active_segment' = find_active_segment(segments, 1, ((frame_count + 1) * 1000) \div fps)
    /\ written' = Append(written,
                     written_frame(frames_read, ((frame_count + 1) * 1000) \div fps,
                         find_active_segment(segments, 1, ((frame_count + 1) * 1000) \div fps),
                         _render_caption_on_frame(segments,
                             ((frame_count + 1) * 1000) \div fps, config)))
    /\ sizes' = LET frame == rotate(video_info, config.rotation_degrees)
                 IN  [sizes EXCEPT !.frame = frame,
                                   !.frame_font_size = font_size_for(frame.height)]
    /\ composited' = composite_layers(segments, ((frame_count + 1) * 1000) \div fps, config)
    /\ frame_count' = frame_count + 1
    /\ UNCHANGED <<released, caption_processor, font_log, packer, grouper, presets_call,
                   caller_words, out_opened, fixedvars, pc, words, segments, filevars,
                   cap_opened, exc, result>>

\* renderer.py lines 488-511; media_processer.py lines 667-690, 1259-1282:
\* one frame read, captioned and written
RenderFrame ==
    /\ pc = "render"
    /\ cap_opened
    /\ frame_count < MaxFrames
    /\ frames_read' = frames_read + 1
    /\ current_time' = (frame_count * 1000) \div fps
    /\ active_segment' = find_active_segment(segments, 1, (frame_count * 1000) \div fps)
    /\ written' = Append(written,
                     written_frame(frames_read, (frame_count * 1000) \div fps,
                         find_active_segment(segments, 1, (frame_count * 1000) \div fps),
                         _render_caption_on_frame(segments,
                             (frame_count * 1000) \div fps, config)))
    /\ sizes' = LET frame == rotate(video_info, config.rotation_degrees)
                 IN  [sizes EXCEPT !.frame = frame,
                                   !.frame_font_size = font_size_for(frame.height)]
    /\ composited' = composite_layers(segments, (frame_count * 1000) \div fps, config)
    /\ frame_count' = frame_count + 1
    /\ UNCHANGED <<released, caption_processor, font_log, packer, grouper, presets_call,
                   caller_words, out_opened, fixedvars, pc, words, segments, filevars,
                   cap_opened, exc, result>>

\* the same, with an exception raised while the frame is captioned or written
RenderFrameFails ==
    /\ pc = "render"
    /\ cap_opened
    /\ frame_count < MaxFrames
    /\ frames_read' = frames_read + 1
    /\ raise(IF entry = processor THEN "RenderingError" ELSE "Exception")
    /\ UNCHANGED <<released, caption_processor, font_log, composited, packer, grouper,
                   presets_call, sizes, caller_words, out_opened, fixedvars, words,
                   segments, frame_count, current_time, active_segment, written, filevars,
                   cap_opened, result>>

\* renderer.py lines 490-491, 517-519; media_processer.py lines 667-670,
\* 697-699: no more frames, or (media_processer) a capture that never opened
EndOfVideo ==
    /\ pc = "render"
    /\ frame_count = MaxFrames \/ ~cap_opened
    /\ released' = {"cap", "out"}
    /\ pc' = "remux"
    /\ UNCHANGED <<caption_processor, font_log, composited, packer, grouper, presets_call,
                   sizes, caller_words, out_opened, fixedvars, corevars, filevars,
                   cap_opened, exc, result>>

\* one run of ffmpeg, as the log of the call keeps it
ffmpeg_call(params, r) == [params |-> params, result |-> r]

\* renderer.py lines 556-608 (_merge_audio: one call, every failure raises);
\* media_processer.py lines 1301-1327, 1363 (rotated: only TimeoutExpired is
\* ever raised by subprocess.run, which is called without check=True);
\* media_processer.py lines 709-738 (extended: any exception ends in the copy)
Remux ==
    /\ pc = "remux"
    /\ \E r \in FfmpegResults :
          /\ remux_log' = Append(remux_log, ffmpeg_call("audio_required", r))
          /\ output' = CASE r = "ok" -> "merged"
                         [] entry = extended /\ r \in {"timeout", "not_found"} -> "silent"
                         [] OTHER -> output
          /\ IF entry = processor
             THEN IF r = "ok" THEN /\ pc' = "verify"
                                   /\ UNCHANGED exc
                              ELSE raise("RenderingError")
             ELSE IF entry = rotated
             THEN CASE r = "timeout"   -> /\ pc' = "remux_alt"
                                          /\ UNCHANGED exc
                    [] r = "not_found" -> raise("Exception")
                    [] OTHER           -> /\ pc' = "exit"
                                          /\ UNCHANGED exc
             ELSE /\ pc' = "exit"
                  /\ UNCHANGED exc
    /\ UNCHANGED <<released, caption_processor, font_log, composited, packer, grouper,
                   presets_call, sizes, caller_words, out_opened, fixedvars, corevars,
                   temp_dir, cap_opened, result>>

\* media_processer.py lines 1334-1362: the second call, audio stream optional
RemuxAlt ==
    /\ pc = "remux_alt"
    /\ \E r \in FfmpegResults :
          /\ remux_log' = Append(remux_log, ffmpeg_call("audio_optional", r))
          /\ output' = CASE r = "ok"      -> "merged"
                         [] r = "timeout" -> "silent"
                         [] OTHER         -> output
          /\ IF r = "not_found" THEN raise("Exception")
                                ELSE /\ pc' = "exit"
                                     /\ UNCHANGED exc
    /\ UNCHANGED <<released, caption_processor, font_log, composited, packer, grouper,
                   presets_call, sizes, caller_words, out_opened, fixedvars, corevars,
                   temp_dir, cap_opened, result>>

\* caption_processor.py lines 256-263
VerifyOutput ==
    /\ pc = "verify"
    /\ result' = IF output # "none" THEN "True" ELSE "False"
    /\ pc' = "exit"
    /\ UNCHANGED <<released, caption_processor, font_log, composited, packer, grouper,
                   presets_call, sizes, caller_words, out_opened, fixedvars, corevars,
                   filevars, cap_opened, exc>>

\* caption_processor.py lines 134-144 with utils.py lines 165-171: the with
\* block is left, the call returns or raises CaptionToolError;
\* media_processer.py lines 740-756, 1396-1412: rmtree, the exception is printed
Exit ==
    /\ pc = "exit"
    /\ IF entry = processor
       THEN /\ temp_dir' = TempFileManager_exit(cleanup, temp_dir, exc)
            /\ result' = IF exc # "None" THEN "raised" ELSE result
            /\ exc' = IF exc = "Exception" THEN "CaptionToolError" ELSE exc
       ELSE /\ temp_dir' = rmtree(temp_dir)
            /\ result' = "None"
            /\ exc' = "None"
    /\ pc' = "finished"
    /\ UNCHANGED <<released, caption_processor, font_log, composited, packer, grouper,
                   presets_call, sizes, caller_words, out_opened, fixedvars, corevars,
                   remux_log, output, cap_opened>>

----------------------------------------------------------------------------
(* Spec: the caption core, for every word list of the transcriber *)

Init ==
    /\ entry = processor
    /\ cleanup = TRUE
    /\ pc = "segment"
    /\ words \in WordLists
    /\ segments = <<>>
    /\ cap_opened = FALSE
    /\ frame_count = 0
    /\ current_time = 0
    /\ active_segment = 0
    /\ temp_dir = "exists"
    /\ remux_log = <<>>
    /\ output = "none"
    /\ exc = "None"
    /\ result = "running"
    /\ fonts = no_fonts
    /\ segmenter_font = font("unset", 0)
    /\ renderer_font = font("unset", 0)
    /\ frames_read = 0
    /\ written = <<>>
    /\ config = default_config
    /\ caption_box = no_box
    /\ placement = no_placement
    /\ out_opened = FALSE
    /\ caller_words = words
    /\ video_info = default_video
    /\ sizes = no_sizes
    /\ presets_call = no_call
    /\ grouper = no_grouper
    /\ packer = no_packer
    /\ composited = <<>>
    /\ font_log = no_font_log
    /\ caption_processor = no_processor
    /\ released = {}

Next == Segment \/ OpenVideo \/ RenderFrame \/ EndOfVideo

Spec == Init /\ [][Next]_vars

(* SpecRender: the whole render call, for each of the three entries *)

InitRender ==
    /\ entry \in Entries
    /\ cleanup \in (IF entry = processor THEN BOOLEAN ELSE {TRUE})
    /\ pc = IF entry = processor THEN "prepare" ELSE "enter"
    /\ words = <<>>
    /\ segments \in (IF entry = processor THEN { <<>> }
                     ELSE { create_segments(w) : w \in SampleWords })
    /\ cap_opened = FALSE
    /\ frame_count = 0
    /\ current_time = 0
    /\ active_segment = 0
    /\ temp_dir = "none"
    /\ remux_log = <<>>
    /\ output = "none"
    /\ exc = "None"
    /\ result = "running"
    /\ fonts = no_fonts
    /\ segmenter_font = font("unset", 0)
    /\ renderer_font = font("unset", 0)
    /\ frames_read = 0
    /\ written = <<>>
    /\ config \in { c \in Configs : entry # processor => c.rotation_degrees = 90 }
    /\ caption_box = no_box
    /\ placement = no_placement
    /\ out_opened = FALSE
    /\ caller_words = words
    /\ video_info \in VideoSizes
    /\ sizes = no_sizes
    /\ presets_call = no_call
    /\ grouper = no_grouper
    /\ packer = no_packer
    /\ composited = <<>>
    /\ font_log = no_font_log
    /\ caption_processor = no_processor
    /\ released = {}

NextRender ==
    \/ Prepare \/ EnterTempDir \/ Transcribe \/ CheckWords \/ Segment \/ SegmentFails
    \/ OpenVideo \/ RenderFrame \/ RenderFrameFails \/ EndOfVideo
    \/ Remux \/ RemuxAlt \/ VerifyOutput \/ Exit

SpecRender == InitRender /\ [][NextRender]_vars

(* SpecFont: the fonts of one render, for every machine *)

\* caption_processor.py line 39 with config.py lines 100-103
ValidateConfig ==
    /\ pc = "config"
    /\ IF font_path_valid(fonts)
       THEN /\ pc' = "segmenter"
            /\ UNCHANGED <<exc, result>>
       ELSE /\ pc' = "finished"
            /\ exc' = "ConfigurationError"
            /\ result' = "raised"
    /\ UNCHANGED <<released, caption_processor, font_log, composited, packer, grouper,
                   presets_call, sizes, video_info, caller_words, out_opened, layoutvars,
                   config, callvars, corevars, filevars, cap_opened, fonts, segmenter_font,
                   renderer_font>>

\* caption_processor.py lines 109-115 with segmenter.py lines 35, 41-49
SegmenterInit ==
    /\ pc = "segmenter"
    /\ segmenter_font' = Segmenter_load_font(fonts)
    /\ IF Segmenter_load_font(fonts).kind = "FontError"
       THEN /\ pc' = "finished"
            /\ exc' = "FontError"
            /\ result' = "raised"
       ELSE /\ pc' = "frame"
            /\ UNCHANGED <<exc, result>>
    /\ UNCHANGED <<released, caption_processor, font_log, composited, packer, grouper,
                   presets_call, sizes, video_info, caller_words, out_opened, layoutvars,
                   config, callvars, corevars, filevars, cap_opened, fonts, renderer_font>>

\* renderer.py lines 243-244 within lines 488-506, 535-538: the font of a
\* frame; the frame is the last of the video or is not
FrameLoadFont ==
    /\ pc = "frame"
    /\ frame_count < MaxFrames
    /\ renderer_font' = CaptionRenderer_load_font(fonts)
    /\ font_log' = log_font_messages(font_log, font_messages(fonts))
    /\ frame_count' = frame_count + 1
    /\ IF CaptionRenderer_load_font(fonts).kind = "FontError"
       THEN /\ exc' = "RenderingError"
            /\ result' = "raised"
            /\ pc' = "finished"
       ELSE \E last \in BOOLEAN :
               IF last \/ frame_count + 1 = MaxFrames
               THEN /\ pc' = "finished"
                    /\ result' = "True"
                    /\ UNCHANGED exc
               ELSE UNCHANGED <<pc, exc, result>>
    /\ UNCHANGED <<released, caption_processor, composited, packer, grouper, presets_call,
                   sizes, video_info, caller_words, out_opened, layoutvars, config,
                   callvars, words, segments, current_time, active_segment, frames_read,
                   written, filevars, cap_opened, fonts, segmenter_font>>

InitFont ==
    /\ entry = processor
    /\ cleanup = TRUE
    /\ pc = "config"
    /\ words = <<>>
    /\ segments = <<>>
    /\ cap_opened = FALSE
    /\ frame_count = 0
    /\ current_time = 0
    /\ active_segment = 0
    /\ temp_dir = "none"
    /\ remux_log = <<>>
    /\ output = "none"
    /\ exc = "None"
    /\ result = "running"
    /\ fonts \in FontEnvs
    /\ segmenter_font = font("unset", 0)
    /\ renderer_font = font("unset", 0)
    /\ frames_read = 0
    /\ written = <<>>
    /\ config = default_config
    /\ caption_box = no_box
    /\ placement = no_placement
    /\ out_opened = FALSE
    /\ caller_words = words
    /\ video_info = default_video
    /\ sizes = no_sizes
    /\ presets_call = no_call
    /\ grouper = no_grouper
    /\ packer = no_packer
    /\ composited = <<>>
    /\ font_log = no_font_log
    /\ caption_processor = no_processor
    /\ released = {}

NextFont == ValidateConfig \/ SegmenterInit \/ FrameLoadFont

SpecFont == InitFont /\ [][NextFont]_vars

(* SpecLayout: the placement of one caption block on one frame *)

\* frames of 200 x 100 and 100 x 200 pixels, every position ratio from the
\* edge to the middle, blocks from narrow to wider than the frame
Boxes ==
    { box(frame[1], frame[2], position_x, position_y, block_width, 20, font_size) :
        frame \in { <<200, 100>>, <<100, 200>> },
        position_x \in { 0, 50, 100 }, position_y \in { 0, 80, 100 },
        block_width \in { 40, 90, 230 }, font_size \in { 10, 24 } }

\* renderer.py lines 359-393
PlaceFullSegment ==
    /\ pc = "place"
    /\ placement' = _render_full_segment_placement(caption_box)
    /\ pc' = "full_segment"
    /\ UNCHANGED <<released, caption_processor, font_log, composited, packer, grouper,
                   presets_call, sizes, video_info, caller_words, out_opened, caption_box,
                   config, fontvars, callvars, corevars, filevars, cap_opened, exc, result>>

\* renderer.py lines 311-339
PlaceSingleWord ==
    /\ pc = "place"
    /\ placement' = _render_single_word_placement(caption_box)
    /\ pc' = "single_word"
    /\ UNCHANGED <<released, caption_processor, font_log, composited, packer, grouper,
                   presets_call, sizes, video_info, caller_words, out_opened, caption_box,
                   config, fontvars, callvars, corevars, filevars, cap_opened, exc, result>>

\* media_processer.py lines 1050-1099
PlaceLegacySegment ==
    /\ pc = "place"
    /\ placement' = add_text_placement(caption_box)
    /\ pc' = "legacy_segment"
    /\ UNCHANGED <<released, caption_processor, font_log, composited, packer, grouper,
                   presets_call, sizes, video_info, caller_words, out_opened, caption_box,
                   config, fontvars, callvars, corevars, filevars, cap_opened, exc, result>>

InitLayout ==
    /\ entry = processor
    /\ cleanup = TRUE
    /\ pc = "place"
    /\ words = <<>>
    /\ segments = <<>>
    /\ cap_opened = FALSE
    /\ frame_count = 0
    /\ current_time = 0
    /\ active_segment = 0
    /\ temp_dir = "none"
    /\ remux_log = <<>>
    /\ output = "none"
    /\ exc = "None"
    /\ result = "running"
    /\ fonts = no_fonts
    /\ segmenter_font = font("unset", 0)
    /\ renderer_font = font("unset", 0)
    /\ frames_read = 0
    /\ written = <<>>
    /\ config = [default_config EXCEPT !.background_color = "colour"]
    /\ caption_box \in Boxes
    /\ placement = no_placement
    /\ out_opened = FALSE
    /\ caller_words = words
    /\ video_info = default_video
    /\ sizes = no_sizes
    /\ presets_call = no_call
    /\ grouper = no_grouper
    /\ packer = no_packer
    /\ composited = <<>>
    /\ font_log = no_font_log
    /\ caption_processor = no_processor
    /\ released = {}

NextLayout == PlaceFullSegment \/ PlaceSingleWord \/ PlaceLegacySegment

SpecLayout == InitLayout /\ [][NextLayout]_vars

----------------------------------------------------------------------------
(* Vocabulary of the claims about the caption core *)

segmented == pc \notin {"prepare", "enter", "transcribe", "transcribed", "segment"}

grouped == _group_words_with_punctuation(words)

RECURSIVE all_words(_)
all_words(segs) ==
    IF segs = <<>> THEN <<>> ELSE Head(segs).words \o all_words(Tail(segs))

seg_start(s) == parse_time_to_seconds(s.start_time)
seg_end(s) == parse_time_to_seconds(s.end_time)
word_start(w) == parse_time_to_seconds(w.start)
word_end(w) == parse_time_to_seconds(w.end)

\* the words lie in document order and their spans do not overlap
in_document_order(wordlist) ==
    /\ \A i \in DOMAIN wordlist : word_start(wordlist[i]) <= word_end(wordlist[i])
    /\ \A i \in 1..(Len(wordlist) - 1) :
           word_end(wordlist[i]) <= word_start(wordlist[i + 1])

sorted_non_overlapping(segs) ==
    \A i \in 1..(Len(segs) - 1) :
        /\ seg_start(segs[i]) <= seg_start(segs[i + 1])
        /\ seg_end(segs[i]) <= seg_start(segs[i + 1])

\* the width create_segments has summed up for a segment (current_width)
packed_width(s) ==
    SumSeq([j \in 1..Len(s.words) |-> _measure_text_width(s.words[j].text)])
    + (Len(s.words) - 1) * _measure_text_width(<<" ">>)

within_budget(s) ==
    /\ _measure_text_width(s.text) <= max_width_pixels
    /\ seg_end(s) - seg_start(s) <= max_duration_ms

punctuation_after_first(s) ==
    \E j \in 2..Len(s.words) : _is_punctuation(s.words[j].text)

oversized(w) ==
    \/ _measure_text_width(w.text) > max_width_pixels
    \/ word_end(w) - word_start(w) > max_duration_ms

matching_segments(t) ==
    { i \in DOMAIN segments : seg_start(segments[i]) <= t /\ t < seg_end(segments[i]) }

----------------------------------------------------------------------------
C2_Original ==
    segmented =>
        \A i \in DOMAIN segments :
            Len(segments[i].words) >= 2 => within_budget(segments[i])

\* C2 amended: in every segment of two or more tokens none of which after the
\* first is pure punctuation, the width the packer has summed up (each token's
\* measured width plus one measured space per further token) is at most
\* max_width_pixels, and end_time - start_time is at most max_duration_seconds.
C2_PackedWithinBudget ==
    segmented =>
        \A i \in DOMAIN segments :
            (Len(segments[i].words) >= 2 /\ ~punctuation_after_first(segments[i]))
            => /\ packed_width(segments[i]) <= max_width_pixels
               /\ seg_end(segments[i]) - seg_start(segments[i]) <= max_duration_ms

\* a word was refused by a segment of two tokens because of the budget
C2_Witness ==
    /\ segmented
    /\ Len(segments) >= 2
    /\ Len(segments[1].words) >= 2
    /\ ~punctuation_after_first(segments[1])
    /\ ~_is_punctuation(segments[2].words[1].text)

\* C3 as stated: no segment has a pure-punctuation token as its first (or
\* only) token.
C3_Original ==
    segmented =>
        \A i \in DOMAIN segments : ~_is_punctuation(segments[i].words[1].text)

\* C3 amended: a segment begins with a pure-punctuation token only when it is
\* the first segment and the word list itself begins with a punctuation word;
\* every later punctuation token lies inside the segment that was in progress.
C3_PunctuationAttaches ==
    segmented =>
        \A i \in DOMAIN segments :
            _is_punctuation(segments[i].words[1].text)
            => (i = 1 /\ _is_punctuation(words[1].text))

\* a punctuation token over the budget was put into the segment in progress
C3_Witness ==
    /\ segmented
    /\ segments # <<>>
    /\ punctuation_after_first(segments[1])
    /\ ~within_budget(segments[1])

\* C4: for words in document order with non-overlapping spans the segments are
\* sorted by start time and each ends no later than the next one starts.
C4_SegmentsOrdered ==
    (segmented /\ in_document_order(words)) => sorted_non_overlapping(segments)

\* ordered words packed into three segments
C4_Witness ==
    /\ segmented
    /\ in_document_order(words)
    /\ Len(segments) >= 3

\* C5: on a sorted, non-overlapping segment list the frame at time t gets the
\* first segment s with s.start <= t < s.end, and None when there is no such
\* segment; at t = s.end the segment s is not the one.
C5_ActiveSegment ==
    (frame_count > 0 /\ sorted_non_overlapping(segments))
    => /\ matching_segments(current_time) = {} => active_segment = 0
       /\ matching_segments(current_time) # {}
              => /\ active_segment \in matching_segments(current_time)
                 /\ \A i \in matching_segments(current_time) : active_segment <= i
       /\ \A i \in DOMAIN segments :
              seg_end(segments[i]) = current_time => active_segment # i

\* a frame exactly at the end of one segment and the start of the next
C5_Witness ==
    /\ frame_count > 0
    /\ sorted_non_overlapping(segments)
    /\ active_segment > 1
    /\ seg_end(segments[active_segment - 1]) = current_time
    /\ seg_start(segments[active_segment]) = current_time

----------------------------------------------------------------------------
(* Vocabulary of the claims about the render call *)

finished == pc = "finished"

failed(call) == call.result # "ok"

\* C7: when the first ffmpeg call of a render times out or fails, the render
\* makes exactly one more call, with the audio stream optional, and no render
\* makes more than two calls.
C7_Original ==
    /\ Len(remux_log) <= 2
    /\ (finished /\ remux_log # <<>> /\ failed(remux_log[1]))
       => /\ Len(remux_log) = 2
          /\ remux_log[2].params = "audio_optional"

\* C8: when the remux has failed again in the retry, the render does not
\* raise: the silent rendered video is the output file.
C8_Original ==
    (finished /\ Len(remux_log) = 2 /\ failed(remux_log[1]) /\ failed(remux_log[2]))
    => /\ result # "raised"
       /\ output = "silent"

C10_Original ==
    /\ exc # "FontError"
    /\ segmenter_font.kind # "FontError"
    /\ renderer_font.kind # "FontError"

\* C11: in a render that gets as far as drawing a frame, the font the
\* Segmenter measured with is the font the CaptionRenderer draws with,
\* whether fonts.path is given or not.
C11_Original ==
    (finished /\ renderer_font.kind \notin {"unset", "FontError"})
    => segmenter_font = renderer_font

spoken_at(segment, t) ==
    { i \in DOMAIN segment.words :
        word_start(segment.words[i]) <= t /\ t < word_end(segment.words[i]) }

\* C13: in current_word_only mode a frame whose time lies in the span of
\* exactly one word of the active segment shows that word, text and shadow,
\* and no other; a frame in a gap between the words of the active segment, or
\* outside every segment, shows nothing: no text, no shadow, no background.
C13_CurrentWordOnly ==
    show_current_word_only(config)
    => \A k \in DOMAIN written :
          LET f == written[k]
              in_gap == \/ f.active = 0
                        \/ spoken_at(segments[f.active], f.time) = {}
          IN  /\ f.active # 0
                 => \A w \in DOMAIN segments[f.active].words :
                       spoken_at(segments[f.active], f.time) = {w}
                       => /\ f.overlay.text = << w >>
                          /\ f.overlay.shadow = << w >>
              /\ in_gap => f.overlay = nothing_drawn

\* with a background colour set, one frame shows the second word of a
\* segment and another, in the gap before that word, shows nothing
C13_Witness ==
    /\ show_current_word_only(config)
    /\ config.background_color # "None"
    /\ \E j, k \in DOMAIN written :
          /\ written[j].active # 0
          /\ written[j].active = written[k].active
          /\ spoken_at(segments[written[j].active], written[j].time) = {}
          /\ written[j].overlay = nothing_drawn
          /\ written[k].overlay.text = << 2 >>
          /\ written[k].overlay.background

----------------------------------------------------------------------------
(* Vocabulary of the claims about the placement *)

was_placed == pc \in {"full_segment", "single_word", "legacy_segment"}

\* the rectangle lies inside the frame less the margin on every side
inside_margin(p, b) ==
    /\ min_margin(b.width) <= p.bg_left
    /\ p.bg_right <= b.width - min_margin(b.width)
    /\ min_margin(b.height) <= p.bg_top
    /\ p.bg_bottom <= b.height - min_margin(b.height)

\* a rectangle of this block's size fits between the margins
fits(b) ==
    /\ b.block_width + 2 * h_padding(b.font_size) <= b.width - 2 * min_margin(b.width)
    /\ b.text_height + 2 * v_padding(b.font_size) <= b.height - 2 * min_margin(b.height)

\* C14: a background rectangle that fits between the margins is drawn inside
\* them, in the full-segment and in the single-word layout, horizontally and
\* vertically, and the text keeps its place within the rectangle.
C14_Original ==
    (was_placed /\ fits(caption_box))
    => /\ inside_margin(placement, caption_box)
       /\ placement.x - placement.bg_left = h_padding(caption_box.font_size)
       /\ placement.y - placement.bg_top = v_padding(caption_box.font_size)

----------------------------------------------------------------------------
(* Vocabulary of the claims about opening the video *)

\* C15: when the source video or the frame writer cannot be opened the
\* render raises RenderingError, and while either of them is not open no
\* frame is read or written and nothing is remuxed.
C15_Original ==
    [][ /\ (pc = "open" /\ ~(cap_opened' /\ out_opened')) => exc' = "RenderingError"
        /\ ~(cap_opened /\ out_opened) => UNCHANGED <<frames_read, written, remux_log>>
      ]_vars

----------------------------------------------------------------------------
(* Vocabulary of the claims about an empty transcription *)

\* C16: an empty word list from the transcription ends the pipeline with the
\* value False and no exception; create_segments gives no segment for it, and
\* as long as the word list is empty no video is opened, no frame rendered and
\* nothing remuxed.
C16_NothingToCaption ==
    /\ [](words = <<>>
          => /\ create_segments(words) = <<>>
             /\ entry = processor
                => /\ segments = <<>>
                   /\ ~cap_opened
                   /\ frames_read = 0
                   /\ written = <<>>
                   /\ remux_log = <<>>)
    /\ [][(pc = "transcribed" /\ words = <<>>)
          => /\ result' = "False"
             /\ exc' = "None"
             /\ pc' = "exit"]_vars

\* the call has returned False for an empty word list and cleaned up
C16_Witness ==
    /\ finished
    /\ entry = processor
    /\ words = <<>>
    /\ result = "False"
    /\ exc = "None"
    /\ temp_dir = "removed"

----------------------------------------------------------------------------
(* Vocabulary of the claims about the caller's word list *)

\* some word was merged into the token before it
some_word_merged == Len(grouped) < Len(words)

\* C17: grouping and packing leave the caller's word list as it was: the same
\* words in the same order with the same text, start and end, also where
\* words were merged into a token; the tokens are built in dicts of their own.
C17_WordsUnchanged ==
    segmented
    => /\ caller_words = words
       /\ tokens_in_memory(words) = grouped

\* a list of three words of which one was merged away
C17_Witness ==
    /\ segmented
    /\ Len(words) = MaxWords
    /\ some_word_merged
    /\ caller_words = words

\* the size the source is reported with after the configured rotation
turned(info, rotation_degrees) ==
    CASE rotation_degrees \in {90, 270} -> size(info.height, info.width)
      [] rotation_degrees \in {0, 180}  -> size(info.width, info.height)

\* C18: the writer is opened with the source size, its sides swapped for a
\* rotation of 90 or 270 degrees and kept for 0 or 180; every frame handed
\* to the writer has that size; the font size of the Segmenter and the one
\* taken for each frame are both derived from the height of that size, and
\* the width budget of the Segmenter from its width
C18_SizesFollowRotation ==
    LET expected == turned(video_info, config.rotation_degrees)
        budget   == (expected.width * 8) \div 10
    IN  /\ (pc \in {"render", "remux", "remux_alt", "verify"} \/ out_opened)
             => sizes.output = expected
        /\ Len(written) > 0
             => /\ sizes.frame = sizes.output
                /\ sizes.frame_font_size = (expected.height * font_size_scale) \div 1000
        /\ (entry = processor /\ pc \notin {"prepare", "finished"} /\ sizes.font_size > 0)
             => /\ sizes.effective = expected
                /\ sizes.font_size = (expected.height * font_size_scale) \div 1000
                /\ sizes.max_width_pixels
                     = IF budget < config_max_width_pixels THEN budget
                                                            ELSE config_max_width_pixels
                /\ Len(written) > 0 => sizes.frame_font_size = sizes.font_size

\* a portrait source turned by 270 degrees was captioned on a landscape frame
C18_Witness ==
    /\ entry = processor
    /\ config.rotation_degrees = 270
    /\ video_info = size(360, 640)
    /\ Len(written) > 0
    /\ sizes.output = size(640, 360)
    /\ sizes.frame = size(640, 360)
    /\ sizes.max_width_pixels = 512
    /\ sizes.font_size = 16

----------------------------------------------------------------------------
(* SpecConfig: a CaptionProcessor, its Config and the renderers built from it *)

\* caption_processor.py lines 26-50, config.py lines 24-32: Config(config_file,
\* overrides) validates what it stores or raises
CaptionProcessorInit ==
    /\ pc = "init"
    /\ \E overrides \in ConfigUpdates :
          LET c == dict_update(config_defaults, overrides)
          IN  IF _validate_config(c)
              THEN /\ caption_processor' = [caption_processor EXCEPT !._config = c]
                   /\ pc' = "ready"
                   /\ UNCHANGED <<exc, result>>
              ELSE /\ exc' = "ConfigurationError"
                   /\ result' = "raised"
                   /\ pc' = "finished"
                   /\ UNCHANGED caption_processor
    /\ UNCHANGED <<released, font_log, composited, packer, grouper, presets_call, sizes,
                   caller_words, out_opened, fixedvars, corevars, filevars, cap_opened>>

\* config.py lines 134-142: processor.config.set(key_path, value)
ConfigSet ==
    /\ pc = "ready"
    /\ caption_processor.calls < MaxCalls
    /\ \E argument \in ConfigSetArguments :
          caption_processor' =
              [caption_processor EXCEPT
                 !._config = Config_set(@, argument[1], argument[2]),
                 !.calls = @ + 1]
    /\ UNCHANGED <<released, font_log, composited, packer, grouper, presets_call, sizes,
                   caller_words, out_opened, fixedvars, corevars, filevars, cap_opened, pc,
                   exc, result>>

\* caption_processor.py lines 147-158: Config.set for every update, then
\* _init_components, which builds the Transcriber only (lines 52-63)
UpdateConfig ==
    /\ pc = "ready"
    /\ caption_processor.calls < MaxCalls
    /\ \E updates \in ConfigUpdates :
          caption_processor' =
              [caption_processor EXCEPT
                 !._config = dict_update(@, updates),
                 !.calls = @ + 1]
    /\ UNCHANGED <<released, font_log, composited, packer, grouper, presets_call, sizes,
                   caller_words, out_opened, fixedvars, corevars, filevars, cap_opened, pc,
                   exc, result>>

\* caption_processor.py lines 118-131: process_video builds the CaptionRenderer
\* from the stored position and mode (renderer.py lines 53-54, 60-63)
BuildRenderer ==
    /\ pc = "ready"
    /\ caption_processor' = [caption_processor EXCEPT !.renderer = caption_processor._config]
    /\ UNCHANGED <<released, font_log, composited, packer, grouper, presets_call, sizes,
                   caller_words, out_opened, fixedvars, corevars, filevars, cap_opened, pc,
                   exc, result>>

InitConfig ==
    /\ entry = processor
    /\ cleanup = TRUE
    /\ pc = "init"
    /\ words = <<>>
    /\ segments = <<>>
    /\ cap_opened = FALSE
    /\ frame_count = 0
    /\ current_time = 0
    /\ active_segment = 0
    /\ temp_dir = "none"
    /\ remux_log = <<>>
    /\ output = "none"
    /\ exc = "None"
    /\ result = "running"
    /\ fonts = no_fonts
    /\ segmenter_font = font("unset", 0)
    /\ renderer_font = font("unset", 0)
    /\ frames_read = 0
    /\ written = <<>>
    /\ config = default_config
    /\ caption_box = no_box
    /\ placement = no_placement
    /\ out_opened = FALSE
    /\ caller_words = words
    /\ video_info = default_video
    /\ sizes = no_sizes
    /\ presets_call = no_call
    /\ grouper = no_grouper
    /\ packer = no_packer
    /\ composited = <<>>
    /\ font_log = no_font_log
    /\ caption_processor = no_processor
    /\ released = {}

NextConfig ==
    \/ CaptionProcessorInit
    \/ ConfigSet
    \/ UpdateConfig
    \/ BuildRenderer

SpecConfig == InitConfig /\ [][NextConfig]_vars

----------------------------------------------------------------------------
(* SpecPresets: one call of CaptionProcessor.with_presets *)

\* caption_processor.py lines 209-210
PresetsGet ==
    /\ pc = "with_presets"
    /\ presets_call' = [presets_call EXCEPT !.preset_config =
                           dict_update(presets_get(presets_call.preset),
                                       presets_call.overrides)]
    /\ pc' = "load_default_config"
    /\ UNCHANGED <<released, caption_processor, font_log, composited, packer, grouper,
                   sizes, caller_words, out_opened, fixedvars, corevars, filevars,
                   cap_opened, exc, result>>

\* cls(**preset_config): Config.__init__, config.py lines 24, 34-41; the file
\* default_config.json is read or cannot be
LoadDefaultConfig ==
    /\ pc = "load_default_config"
    /\ \E loaded \in BOOLEAN :
          IF loaded THEN /\ presets_call' = [presets_call EXCEPT !.instance = default_settings]
                         /\ pc' = "apply_overrides"
                         /\ UNCHANGED <<exc, result>>
                    ELSE /\ exc' = "ConfigurationError"
                         /\ result' = "raised"
                         /\ pc' = "finished"
                         /\ UNCHANGED presets_call
    /\ UNCHANGED <<released, caption_processor, font_log, composited, packer, grouper,
                   sizes, caller_words, out_opened, fixedvars, corevars, filevars,
                   cap_opened>>

\* config.py lines 29-30, 55-58
ApplyOverrides ==
    /\ pc = "apply_overrides"
    /\ presets_call' = [presets_call EXCEPT !.instance =
                           dict_update(presets_call.instance, presets_call.preset_config)]
    /\ pc' = "validate_config"
    /\ UNCHANGED <<released, caption_processor, font_log, composited, packer, grouper,
                   sizes, caller_words, out_opened, fixedvars, corevars, filevars,
                   cap_opened, exc, result>>

\* config.py lines 32, 79-102
ValidatePresetConfig ==
    /\ pc = "validate_config"
    /\ IF settings_valid(presets_call.instance)
          THEN /\ pc' = "init_components"
               /\ UNCHANGED <<exc, result>>
          ELSE /\ exc' = "ConfigurationError"
               /\ result' = "raised"
               /\ pc' = "finished"
    /\ UNCHANGED <<released, caption_processor, font_log, composited, packer, grouper,
                   presets_call, sizes, caller_words, out_opened, fixedvars, corevars,
                   filevars, cap_opened>>

\* caption_processor.py lines 41-63: the instance is complete
InitComponents ==
    /\ pc = "init_components"
    /\ pc' = "process_pipeline"
    /\ UNCHANGED <<released, caption_processor, font_log, composited, packer, grouper,
                   presets_call, sizes, caller_words, out_opened, fixedvars, corevars,
                   filevars, cap_opened, exc, result>>

\* caption_processor.py line 212: the arguments of ._process_pipeline(input_path,
\* output_path, temp_manager) are names with_presets does not have
CallProcessPipeline ==
    /\ pc = "process_pipeline"
    /\ exc' = "NameError"
    /\ result' = "raised"
    /\ pc' = "finished"
    /\ UNCHANGED <<released, caption_processor, font_log, composited, packer, grouper,
                   presets_call, sizes, caller_words, out_opened, fixedvars, corevars,
                   filevars, cap_opened>>

InitPresets ==
    /\ entry = "with_presets"
    /\ cleanup = TRUE
    /\ pc = "with_presets"
    /\ words = <<>>
    /\ segments = <<>>
    /\ cap_opened = FALSE
    /\ frame_count = 0
    /\ current_time = 0
    /\ active_segment = 0
    /\ temp_dir = "none"
    /\ remux_log = <<>>
    /\ output = "none"
    /\ exc = "None"
    /\ result = "running"
    /\ fonts = no_fonts
    /\ segmenter_font = font("unset", 0)
    /\ renderer_font = font("unset", 0)
    /\ frames_read = 0
    /\ written = <<>>
    /\ config = default_config
    /\ caption_box = no_box
    /\ placement = no_placement
    /\ out_opened = FALSE
    /\ caller_words = words
    /\ video_info = default_video
    /\ sizes = no_sizes
    /\ \E preset \in PresetNames, overrides \in Overrides :
          presets_call = [no_call EXCEPT !.preset = preset, !.overrides = overrides]
    /\ grouper = no_grouper
    /\ packer = no_packer
    /\ composited = <<>>
    /\ font_log = no_font_log
    /\ caption_processor = no_processor
    /\ released = {}

NextPresets ==
    \/ PresetsGet
    \/ LoadDefaultConfig
    \/ ApplyOverrides
    \/ ValidatePresetConfig
    \/ InitComponents
    \/ CallProcessPipeline

SpecPresets == InitPresets /\ [][NextPresets]_vars

\* the settings the claim promises: the preset's, overlaid by the overrides
promised_settings ==
    dict_update(dict_update(default_settings, presets_get(presets_call.preset)),
                presets_call.overrides)

\* C19: with_presets(preset, **overrides) returns a CaptionProcessor whose
\* configuration is the preset's settings overlaid by the overrides, an
\* unknown preset name counting as default
C19_Original ==
    (entry = "with_presets" /\ pc = "finished" /\ settings_valid(promised_settings)
       /\ exc # "ConfigurationError")
    => /\ result = "instance"
       /\ presets_call.instance = promised_settings

----------------------------------------------------------------------------
(* SpecGrouper: the grouper and the packer of Segmenter.create_segments, pass by pass *)

\* segmenter.py lines 78-117: one pass of the while loop
GroupStep ==
    /\ pc = "group"
    /\ grouper.i <= Len(words)
    /\ LET word == words[grouper.i]
           word_text == word.text
           current_group == grouper.current_group
       IN  grouper' =
             IF _is_punctuation(word_text)
             THEN IF is_contraction(words, grouper.i, current_group)
                  THEN [grouper EXCEPT
                          !.current_group =
                              merge_contraction(current_group, word_text,
                                                words[grouper.i + 1]),
                          !.i = @ + 2]
                  ELSE IF current_group # None
                       THEN [grouper EXCEPT
                               !.current_group = attach_punctuation(current_group, word),
                               !.i = @ + 1]
                       ELSE [grouper EXCEPT
                               !.grouped_words = Append(@, word),
                               !.current_group = None,
                               !.i = @ + 1]
             ELSE [grouper EXCEPT
                     !.grouped_words = IF current_group # None THEN @ \o current_group
                                                               ELSE @,
                     !.current_group = << word >>,
                     !.i = @ + 1]
    /\ UNCHANGED <<released, caption_processor, font_log, composited, packer, pc,
                   presets_call, sizes, caller_words, out_opened, fixedvars, corevars,
                   filevars, cap_opened, exc, result>>

\* segmenter.py lines 119-122
AddLastGroup ==
    /\ pc = "group"
    /\ grouper.i > Len(words)
    /\ grouper' = [grouper EXCEPT
                     !.grouped_words = IF grouper.current_group # None
                                       THEN @ \o grouper.current_group ELSE @]
    /\ pc' = "grouped"
    /\ UNCHANGED <<released, caption_processor, font_log, composited, packer, presets_call,
                   sizes, caller_words, out_opened, fixedvars, corevars, filevars,
                   cap_opened, exc, result>>

InitGrouper ==
    /\ entry = processor
    /\ cleanup = TRUE
    /\ pc = "group"
    /\ words \in GrouperWords
    /\ segments = <<>>
    /\ cap_opened = FALSE
    /\ frame_count = 0
    /\ current_time = 0
    /\ active_segment = 0
    /\ temp_dir = "exists"
    /\ remux_log = <<>>
    /\ output = "none"
    /\ exc = "None"
    /\ result = "running"
    /\ fonts = no_fonts
    /\ segmenter_font = font("unset", 0)
    /\ renderer_font = font("unset", 0)
    /\ frames_read = 0
    /\ written = <<>>
    /\ config = default_config
    /\ caption_box = no_box
    /\ placement = no_placement
    /\ out_opened = FALSE
    /\ caller_words = words
    /\ video_info = default_video
    /\ sizes = no_sizes
    /\ presets_call = no_call
    /\ grouper = no_grouper
    /\ packer = no_packer
    /\ composited = <<>>
    /\ font_log = no_font_log
    /\ caption_processor = no_processor
    /\ released = {}

\* segmenter.py lines 153-204: one pass of the for loop over grouped_words
PackStep ==
    /\ pc \in {"grouped", "packing"}
    /\ packer.k <= Len(grouper.grouped_words)
    /\ LET word == grouper.grouped_words[packer.k]
           word_text == word.text
           space_width == _measure_text_width(<<" ">>)
           word_width == _measure_text_width(word_text)
           new_width == packer.current_width + space_width + word_width
           duration == parse_time_to_seconds(word.end)
                         - parse_time_to_seconds(packer.current_segment.start_time)
       IN  packer' =
             IF strip_is_empty(word_text)
             THEN [packer EXCEPT !.k = @ + 1]
             ELSE IF packer.current_segment.start_time = None
             THEN [packer EXCEPT !.current_segment = start_segment(word),
                                 !.current_width = word_width,
                                 !.k = @ + 1]
             ELSE IF should_start_new_segment(new_width, duration, word_text)
             THEN [packer EXCEPT !.segments = finish_segment(@, packer.current_segment),
                                 !.current_segment = start_segment(word),
                                 !.current_width = word_width,
                                 !.k = @ + 1]
             ELSE [packer EXCEPT !.current_segment = add_to_segment(@, word),
                                 !.current_width = new_width,
                                 !.k = @ + 1]
    /\ pc' = "packing"
    /\ UNCHANGED <<released, caption_processor, font_log, composited, grouper, presets_call,
                   sizes, caller_words, out_opened, fixedvars, corevars, filevars,
                   cap_opened, exc, result>>

\* segmenter.py lines 206-219
AddFinalSegment ==
    /\ pc \in {"grouped", "packing"}
    /\ packer.k > Len(grouper.grouped_words)
    /\ packer' = [packer EXCEPT
                    !.segments =
                        format_segments(IF packer.current_segment.start_time # None
                                        THEN finish_segment(@, packer.current_segment)
                                        ELSE @)]
    /\ pc' = "packed"
    /\ UNCHANGED <<released, caption_processor, font_log, composited, grouper, presets_call,
                   sizes, caller_words, out_opened, fixedvars, corevars, filevars,
                   cap_opened, exc, result>>

NextGrouper ==
    \/ GroupStep
    \/ AddLastGroup
    \/ PackStep
    \/ AddFinalSegment

SpecGrouper == InitGrouper /\ [][NextGrouper]_vars

\* the loop stands at an apostrophe with a token in progress before it and
\* one of the suffix words right after it
contraction_here ==
    /\ pc = "group"
    /\ grouper.i + 1 <= Len(words)
    /\ is_apostrophe(words[grouper.i].text)
    /\ grouper.current_group # None
    /\ words[grouper.i + 1].text \in
         { <<"r", "e">>, <<"l", "l">>, <<"v", "e">>, <<"s">>, <<"t">>, <<"d">>, <<"m">> }

\* the pass of the loop made there
merged_in_one_pass ==
    contraction_here
    => LET stem == grouper.current_group[1]
           suffix == words[grouper.i + 1]
       IN  /\ grouper'.current_group =
                << [text  |-> stem.text \o <<"'">> \o suffix.text,
                    start |-> stem.start,
                    end   |-> suffix.end] >>
           /\ grouper'.i = grouper.i + 2
           /\ grouper'.grouped_words = grouper.grouped_words

\* in the list returned: the words start one after the other, so a token that
\* starts where a word starts is that word's own token
no_token_of_its_own ==
    pc = "grouped"
    => \A k \in 2..(Len(words) - 1) :
          ( /\ is_apostrophe(words[k].text)
            /\ \E j \in 1..(k - 1) : ~_is_punctuation(words[j].text)
            /\ words[k + 1].text \in
                 { <<"r", "e">>, <<"l", "l">>, <<"v", "e">>, <<"s">>, <<"t">>, <<"d">>,
                   <<"m">> } )
          => /\ \A n \in 1..Len(grouper.grouped_words) :
                   grouper.grouped_words[n].start \notin {words[k].start, words[k + 1].start}
             /\ \E n \in 1..Len(grouper.grouped_words) :
                   /\ parse_time_to_seconds(grouper.grouped_words[n].start)
                        < parse_time_to_seconds(words[k].start)
                   /\ parse_time_to_seconds(grouper.grouped_words[n].end)
                        >= parse_time_to_seconds(words[k + 1].end)

\* C20: an apostrophe with a token in progress before it and one of re, ll,
\* ve, s, t, d, m right after it is merged with both in one pass of the
\* loop: the token in progress gets the text stem + apostrophe + suffix,
\* keeps the stem's start and takes the suffix word's end, and the loop goes
\* on after the suffix word; in the list returned neither the apostrophe nor
\* the suffix word is a token of its own, one token spans both
C20_ContractionMerged ==
    /\ [] no_token_of_its_own
    /\ [][merged_in_one_pass]_vars

\* it's: the three words have become the one token returned
C20_Witness ==
    /\ pc = "grouped"
    /\ Len(words) = 3
    /\ words[1].text = <<"a", "b">>
    /\ is_apostrophe(words[2].text)
    /\ words[3].text = <<"s">>
    /\ grouper.grouped_words =
         << [text  |-> <<"a", "b", "'", "s">>,
             start |-> words[1].start,
             end   |-> words[3].end] >>

\* the loop stands at a punctuation word that is not merged as a contraction:
\* any mark but the apostrophe, or an apostrophe that has no token in
\* progress before it or no suffix word right after it
plain_punctuation_here ==
    /\ pc = "group"
    /\ grouper.i <= Len(words)
    /\ _is_punctuation(words[grouper.i].text)
    /\ \/ ~is_apostrophe(words[grouper.i].text)
       \/ grouper.current_group = None
       \/ grouper.i = Len(words)
       \/ lower(words[grouper.i + 1].text) \notin
            { <<"r", "e">>, <<"l", "l">>, <<"v", "e">>, <<"s">>, <<"t">>, <<"d">>, <<"m">> }

\* the pass of the loop made there
attached_or_standalone ==
    plain_punctuation_here
    => LET word == words[grouper.i]
       IN  /\ grouper'.i = grouper.i + 1
           /\ IF grouper.current_group # None
              THEN LET token == grouper.current_group[1]
                   IN  /\ grouper'.current_group =
                            << [text  |-> token.text \o word.text,
                                start |-> token.start,
                                end   |-> word.end] >>
                       /\ grouper'.grouped_words = grouper.grouped_words
              ELSE /\ grouper'.grouped_words = grouper.grouped_words \o << word >>
                   /\ grouper'.current_group = None

\* Hello, world, '.': two words and a mark that fit both budgets together
one_segment_with_the_mark ==
    ( /\ Len(words) = 3
      /\ ~_is_punctuation(words[1].text) /\ ~strip_is_empty(words[1].text)
      /\ ~_is_punctuation(words[2].text) /\ ~strip_is_empty(words[2].text)
      /\ _is_punctuation(words[3].text)
      /\ _measure_text_width(words[1].text) + _measure_text_width(<<" ">>)
           + _measure_text_width(words[2].text \o words[3].text) <= max_width_pixels
      /\ parse_time_to_seconds(words[3].end) - parse_time_to_seconds(words[1].start)
           <= max_duration_ms )
    => create_segments(words) =
         << [index      |-> 1,
             start_time |-> words[1].start,
             end_time   |-> words[3].end,
             text       |-> words[1].text \o <<" ">> \o words[2].text \o words[3].text,
             words      |-> << words[1],
                               [text  |-> words[2].text \o words[3].text,
                                start |-> words[2].start,
                                end   |-> words[3].end] >>] >>

\* C21: a punctuation word that is not merged as a contraction is appended,
\* with no space, to the token in progress, whose end becomes the end of the
\* punctuation word and whose start stays; with no token in progress it is
\* put into the list as a token of its own and no token is in progress after
\* it; two words and a mark within both budgets give one segment whose text
\* is the two words and the mark, from the first word's start to the mark's end
C21_PunctuationAttached ==
    /\ [] one_segment_with_the_mark
    /\ [][attached_or_standalone]_vars

\* ab ab. : the full stop went into the second token, and the list gives the
\* one segment "ab ab."
C21_Witness ==
    /\ pc = "grouped"
    /\ Len(words) = 3
    /\ words[1].text = <<"a", "b">>
    /\ words[2].text = <<"a", "b">>
    /\ words[3].text = <<".">>
    /\ Len(grouper.grouped_words) = 2
    /\ grouper.grouped_words[2].text = <<"a", "b", ".">>
    /\ grouper.grouped_words[2].end = words[3].end
    /\ Len(create_segments(words)) = 1
    /\ create_segments(words)[1].text = <<"a", "b", " ", "a", "b", ".">>

has_text(word) == ~strip_is_empty(word.text)

\* C22: whitespace-only words are dropped by the grouper: the tokens are
\* those of the list without its whitespace-only words, no token holds a
\* blank, and the segments are those of the list without them
C22_Original ==
    pc = "grouped"
    => /\ grouper.grouped_words = _group_words_with_punctuation(SelectSeq(words, has_text))
       /\ \A n \in 1..Len(grouper.grouped_words) :
             \A c \in 1..Len(grouper.grouped_words[n].text) :
                ~is_space(grouper.grouped_words[n].text[c])
       /\ create_segments(words) = create_segments(SelectSeq(words, has_text))

\* current_width of the packer after the j-th token of a segment
width_up_to(s, j) ==
    SumSeq([n \in 1..j |-> _measure_text_width(s.words[n].text)])
    + (j - 1) * _measure_text_width(<<" ">>)

\* the j-th token of segment s was within both budgets when it was added
was_within_budgets(s, j) ==
    /\ width_up_to(s, j) <= max_width_pixels
    /\ word_end(s.words[j]) - seg_start(s) <= max_duration_ms

\* the split between a segment and the next: the token that opens the later
\* one is not punctuation and would have broken a budget of the earlier one
split_at_first_breaking_token ==
    \A a \in 1..(Len(segments) - 1) :
        LET earlier == segments[a]
            token == segments[a + 1].words[1]
        IN  /\ ~_is_punctuation(token.text)
            /\ \/ packed_width(earlier) + _measure_text_width(<<" ">>)
                    + _measure_text_width(token.text) > max_width_pixels
               \/ word_end(token) - seg_start(earlier) > max_duration_ms

\* C23 as stated: every split is at a token, not punctuation, that would have
\* broken a budget, and every token after the first of a segment was within
\* both budgets when it was added
C23_Original ==
    segmented
    => /\ split_at_first_breaking_token
       /\ \A a \in 1..Len(segments) : \A j \in 2..Len(segments[a].words) :
             was_within_budgets(segments[a], j)

\* C23, amended: every split is at a token, not punctuation, that would have
\* broken a budget, and every token after the first of a segment that is not
\* punctuation was within both budgets when it was added; a punctuation
\* token is added whatever the budgets say
C23_GreedySplit ==
    segmented
    => /\ split_at_first_breaking_token
       /\ \A a \in 1..Len(segments) : \A j \in 2..Len(segments[a].words) :
             ~_is_punctuation(segments[a].words[j].text)
             => was_within_budgets(segments[a], j)

\* a list that was split, with a token that was added to a running segment
C23_Witness ==
    /\ segmented
    /\ Len(segments) = 2
    /\ Len(segments[1].words) = 2
    /\ ~_is_punctuation(segments[1].words[2].text)
    /\ packed_width(segments[1]) + _measure_text_width(<<" ">>)
         + _measure_text_width(segments[2].words[1].text) > max_width_pixels

\* this pass of the packer appends the token to the running segment
token_appended ==
    /\ pc \in {"grouped", "packing"}
    /\ packer.k <= Len(grouper.grouped_words)
    /\ packer.current_segment.start_time # None
    /\ packer'.current_segment.words
         = Append(packer.current_segment.words, grouper.grouped_words[packer.k])

\* C24: when the packer appends a token to the running segment, the running
\* width grows by the token's width if the token is punctuation, and by the
\* width of a space and the token's width otherwise
C24_Original ==
    [][ token_appended
        => LET token == grouper.grouped_words[packer.k]
           IN  packer'.current_width =
                 packer.current_width
                 + (IF _is_punctuation(token.text) THEN 0 ELSE _measure_text_width(<<" ">>))
                 + _measure_text_width(token.text)
      ]_vars

\* the entries of a sequence
Range(seq) == { seq[n] : n \in DOMAIN seq }

\* C25: on every frame CaptionRenderer has captioned with an active segment,
\* a word of that segment has a highlight rectangle behind it exactly if the
\* mode is background or both and the frame time lies in the word's
\* [start, end); so no rectangle for a word that is not spoken, none in text
\* mode and none in current_word_only mode
C25_HighlightRectangle ==
    entry = processor
    => \A k \in DOMAIN written :
          LET f == written[k]
          IN  /\ f.active # 0
                 => \A w \in DOMAIN segments[f.active].words :
                       w \in Range(f.overlay.highlighted_background)
                       <=> /\ config.highlighting_mode \in {"background", "both"}
                           /\ w \in spoken_at(segments[f.active], f.time)
              /\ config.highlighting_mode \in {"text", "current_word_only"}
                 => f.overlay.highlighted_background = <<>>
              /\ f.active = 0 => f.overlay.highlighted_background = <<>>

\* in mode both a frame shows a segment of two tokens with the rectangle
\* behind the second and none behind the first
C25_Witness ==
    /\ entry = processor
    /\ config.highlighting_mode = "both"
    /\ \E k \in DOMAIN written :
          /\ written[k].active # 0
          /\ written[k].overlay.text = <<1, 2>>
          /\ written[k].overlay.highlighted_background = <<2>>

\* C26: on every frame CaptionRenderer has captioned, a word that is drawn
\* is drawn in highlight_color exactly if the mode is text or both and the
\* frame time lies in the word's [start, end); every other drawn word, and
\* every drawn word in the modes background and current_word_only, is drawn
\* in text_color
C26_TextColour ==
    entry = processor
    => \A k \in DOMAIN written :
          LET f == written[k]
          IN  /\ Range(f.overlay.highlighted_text) \subseteq Range(f.overlay.text)
              /\ \A w \in Range(f.overlay.text) :
                    w \in Range(f.overlay.highlighted_text)
                    <=> /\ config.highlighting_mode \in {"text", "both"}
                        /\ w \in spoken_at(segments[f.active], f.time)
              /\ config.highlighting_mode \in {"background", "current_word_only"}
                 => f.overlay.highlighted_text = <<>>

\* in mode text a frame shows a segment of two tokens, the first in
\* highlight_color and the second in text_color
C26_Witness ==
    /\ entry = processor
    /\ config.highlighting_mode = "text"
    /\ \E k \in DOMAIN written :
          /\ written[k].active # 0
          /\ written[k].overlay.text = <<1, 2>>
          /\ written[k].overlay.highlighted_text = <<1>>

\* C27: the layers composited onto a frame with an active segment are, from
\* the bottom: the background of the whole caption, only if a background
\* colour is configured, then the highlight background, the blurred shadow
\* and the text; onto a frame with no active segment nothing is composited
C27_LayerOrder ==
    Len(written) > 0
    => LET f == written[Len(written)]
       IN  /\ f.active = 0 => composited = <<>>
           /\ f.active # 0
              => /\ composited[Len(composited)] = "text"
                 /\ composited[Len(composited) - 1] = "shadow"
                 /\ composited[Len(composited) - 2] = "highlight_background"
                 /\ IF config.background_color # "None"
                    THEN Len(composited) = 4 /\ composited[1] = "background"
                    ELSE Len(composited) = 3

\* one call has captioned a frame with all four layers and, later, a frame
\* outside every segment with none
C27_Witness ==
    /\ config.background_color # "None"
    /\ composited = <<>>
    /\ \E k \in DOMAIN written : written[k].active # 0 /\ written[k].overlay.background
    /\ written[Len(written)].active = 0

----------------------------------------------------------------------------
(* C28 *)

\* C28: over any number of frames rendered by one CaptionRenderer the progress
\* log holds at most one font message, whichever step of the fallback chain
\* supplies the font, and a frame after the first adds nothing to the log
C28_FontLoggedOnce ==
    /\ [](Len(font_log.messages) <= 1)
    /\ [][frame_count >= 1 /\ frame_count' > frame_count
            => font_log'.messages = font_log.messages]_vars

\* three frames rendered with a system font and one message in the log
C28_Witness ==
    /\ frame_count >= 3
    /\ renderer_font.kind = "system"
    /\ font_log.messages = << "Using system font" >>


----------------------------------------------------------------------------
(* C29 *)

\* C29: after any sequence of Config construction, Config.set and
\* update_config calls the stored highlighting mode is one of the four modes
\* and both position ratios lie in [0, 1], and no CaptionRenderer is built from
\* a mode outside the closed set
C29_Original ==
    pc = "ready" =>
       /\ _validate_config(caption_processor._config)
       /\ caption_processor.renderer # empty_dict
             => caption_processor.renderer["highlighting.mode"] \in highlighting_modes


----------------------------------------------------------------------------
(* C30 *)

\* C30: on every exit path of CaptionRenderer.process_video (normal return,
\* writer not opened, exception while a frame is rendered, remux failure)
\* every capture and writer the call opened has been released when it ends
C30_Original ==
    (entry = processor /\ pc = "finished") =>
       /\ cap_opened => "cap" \in released
       /\ out_opened => "out" \in released


====
